---- MODULE Spec2Model ----
(***************************************************************************)
(* Node-id allocator, service registry and discovery resolver of the      *)
(* plaud-go-scaffold, as state machines over a linearizable store.         *)
(*                                                                         *)
(* Every store call (Get, Txn, Put, Delete, Grant, KeepAliveOnce, Watch)   *)
(* is one atomic step; the code between two store calls of one goroutine   *)
(* belongs to the step of the call that precedes it.  time.Now() is read   *)
(* from one clock shared by all processes, whose unit is the allocator's   *)
(* heartbeat interval; a timestamp is read in the same unit as the         *)
(* transaction that writes it.  Store calls of the allocator do not fail   *)
(* (the store is reachable); a heartbeat that cannot reach the store is a  *)
(* heartbeat tick that does not happen.                                    *)
(***************************************************************************)
EXTENDS Integers, FiniteSets, Sequences, TLC

(* ---------------------------------------------------------------------- *)
(* Bounds                                                                  *)
(* ---------------------------------------------------------------------- *)
NumProcs == 2
RangeEnd == 1
MaxTime == 2
NumEndpoints == 2
MaxLeases == 2
NumPorts == 2
MaxRecords == 2
MaxClock == 3
MaxQueue == 2
MaxCalls == 2
MaxTTL == 7
MaxRev == 6
MaxFired == 3

(* ---------------------------------------------------------------------- *)
(* Program constants                                                       *)
(* ---------------------------------------------------------------------- *)
RangeStart == 0
staleDuration == 1
ConfiguredNodeID == 0

Procs == 1 .. NumProcs
Ids == RangeStart .. RangeEnd
Times == 0 .. MaxTime

NoOwner == 0
NoID == -1

\* The serverID of a process of an earlier run that exited without Stop.
Departed == NumProcs + 1

\* The store's revision after the writes of earlier runs.
InitialRev == RangeEnd - RangeStart + 1

\* An absent key: etcd reports Version 0 and ModRevision 0 for it.
NoKey == [owner |-> NoOwner, hb |-> 0, mod |-> 0, ver |-> 0]

\* Service names: one, one that continues it, one nested under it.
ServiceS == <<"s">>
ServiceS2 == <<"s", "2">>
ServiceSA == <<"s", "/", "a">>
Services == {ServiceS, ServiceS2, ServiceSA}

\* serviceName == ""
EmptyName == <<>>

VARIABLES
    now,        \* the wall clock, in heartbeat intervals
    rev,        \* the store's revision counter
    store,      \* claim keys: id -> nodeClaim with its ModRevision and Version
    pc,         \* position of each process's main goroutine
    id,         \* loop variable of Init's two passes
    kvMod,      \* kv.ModRevision read by the cleanup pass
    claimKey,   \* f.claimKey (as the id it names)
    nodeID,     \* f.cfg.NodeID
    gen,        \* Generator.nodeID of the generator user.New obtained
    hb,         \* position of the heartbeat goroutine
    hbMod,      \* kv.ModRevision read by keepAlive
    refused,    \* the transaction whose compare failed most recently, if
                \* no transaction succeeded since
    initialClaims,  \* the ids that were claimed when the first process started
    EtcdNodIDRange  \* f.cfg.EtcdNodIDRange: <<start, end>>

avars == <<now, rev, store, pc, id, kvMod, claimKey, nodeID, gen,
           hb, hbMod, refused, initialClaims, EtcdNodIDRange>>

VARIABLES
    leases,         \* the leases the store holds
    nextLease,      \* the id of the lease the store granted last
    eps,            \* endpoint keys of the service: key -> attached lease
    inited,         \* ServiceRegistry.IsInited()
    leaseID,        \* p.leaseID
    registrations,  \* p.registrations, as the set of its keys
    ka,             \* position of the registry's heartbeat goroutine
    regs,           \* the snapshot recreateLeaseAndReregister took, until
                    \* it fails or the next keepAlive begins
    todo,           \* the entries of regs its loop has not reached
    kaResult,       \* what the last keepAlive returned
    rs,             \* position of the resolver
    addrs,          \* the addresses last passed to cc.UpdateState
    watchPending,   \* a watch response waits on the resolver's channel
    stop,           \* position of ServiceRegistry.Stop
    stopTodo,       \* the entries of Stop's snapshot its loop has not reached
    rcall           \* the error of the last Register that returned one

\* The state of Stop.
svars == <<stop, stopTodo>>

rvars == <<leases, nextLease, eps, inited, leaseID, registrations, ka, regs,
           todo, kaResult, rs, addrs, watchPending, stop, stopTodo, rcall>>

VARIABLES
    dir,            \* the store: each key it holds -> "record" or "garbage"
    ktable,         \* p.registrations by key
    serviceAddr,    \* p.serviceAddr
    kcall           \* the last call and what it returned

kvars == <<dir, ktable, serviceAddr, kcall>>

VARIABLES
    gclock,         \* the clock of the generators' process, in milliseconds
    Epoch,          \* snowflake.Epoch
    onceDone,       \* initEpochOnce has run
    gnode,          \* the snowflake.Node of each generator
    issued,         \* the ids each generator returned
    lastID,         \* the id each generator returned last
    gcall           \* the last NewFromConfig and the error it returned

gvars == <<gclock, Epoch, onceDone, gnode, issued, lastID, gcall>>

VARIABLES
    disc,           \* the records under the watched prefix, p.stopChan and
                    \* p.client
    wsv,            \* the task of WatchService: its position, its watch
                    \* channel, the callbacks it made and the last list
    rsv             \* the resolver: its watch loop's position, the responses
                    \* on its channel, the state given to cc, Build's error,
                    \* what the last and the initial lookup came to

dvars == <<disc, wsv, rsv>>

VARIABLES
    tk              \* the lease of the registry and the ticker of its heartbeat,
                    \* in seconds: the configured and the effective ttl, the
                    \* ticker's period, the lease's age and the ticks so far

VARIABLES
    app             \* the application: where main is, the components InitAll
                    \* or StopAll still has to call, and the error it met

tvars == <<tk, app>>

vars == <<avars, rvars, kvars, gvars, dvars, tvars>>

(* ---------------------------------------------------------------------- *)
(* Node claims                                                             *)
(* ---------------------------------------------------------------------- *)

\* The staleness test without the grace period.
IsStaleNoGrace(heartbeatAt, t) == heartbeatAt < t

\* nc.HeartbeatAt < time.Now().Add(-staleDuration).UnixMilli()
IsStale(heartbeatAt, t) == heartbeatAt < t - staleDuration

Present(k) == store[k] # NoKey

\* The owner field of a stored value that json.Unmarshal rejects.
Malformed == -1

\* json.Unmarshal(kv.Value, &nc) returns nil.
Decodes(k) == store[k].owner # Malformed

\* clientv3.OpPut: the key's ModRevision becomes the new store revision,
\* its Version grows by one (1 on creation).
OpPut(k, owner, heartbeatAt) ==
    [store EXCEPT ![k] = [owner |-> owner, hb |-> heartbeatAt,
                          mod |-> rev + 1, ver |-> store[k].ver + 1]]

\* clientv3.OpDelete
OpDelete(k) == [store EXCEPT ![k] = NoKey]

\* A claim left by an earlier run: written at time 0, never refreshed since.
DepartedClaim(k) ==
    [owner |-> Departed, hb |-> 0, mod |-> k - RangeStart + 1, ver |-> 1]

\* The ranges of the configurations: the whole range, the ranges of one id,
\* a range that starts below 0 and ranges that end before their start.
Ranges ==
    {<<RangeStart, RangeEnd>>}
        \cup {<<k, k>> : k \in Ids}
        \cup {<<RangeStart - 1, RangeEnd>>, <<RangeEnd, RangeEnd - 1>>,
              <<RangeStart - 1, RangeStart - 2>>}

\* A range that is taken whatever it is.
ValidRangeAny(start, end) == TRUE

\* Init: if start < 0 || end < start, "invalid etcd_node_id_range".
ValidRange(start, end) == ~(start < 0 \/ end < start)

\* Where Init goes after it has looked at the range: into the cleanup pass,
\* or out with the error.
InitStart == 
    IF ValidRange(EtcdNodIDRange[1], EtcdNodIDRange[2])
    THEN "cleanupGet"
    ELSE "invalid_range"

\* Loops that begin at the end of the range.
FirstIDEnd ==
    IF ValidRange(EtcdNodIDRange[1], EtcdNodIDRange[2])
    THEN EtcdNodIDRange[2]
    ELSE RangeStart

\* The first id of Init's loops.
FirstID ==
    IF ValidRange(EtcdNodIDRange[1], EtcdNodIDRange[2])
    THEN EtcdNodIDRange[1]
    ELSE RangeStart

InitA ==
    /\ now = 0
    /\ rev = InitialRev
    /\ initialClaims \in {{}, Ids}
    /\ EtcdNodIDRange \in Ranges
    /\ store = [k \in Ids |->
                  IF k \in initialClaims THEN DepartedClaim(k) ELSE NoKey]
    /\ pc = [p \in Procs |-> "new"]
    /\ id = [p \in Procs |-> FirstID]
    /\ kvMod = [p \in Procs |-> 0]
    /\ claimKey = [p \in Procs |-> NoID]
    /\ nodeID = [p \in Procs |-> ConfiguredNodeID]
    /\ gen = [p \in Procs |-> NoID]
    /\ hb = [p \in Procs |-> "none"]
    /\ hbMod = [p \in Procs |-> 0]
    /\ refused = "none"

(* ---------------------------------------------------------------------- *)
(* main: BuildServices and BuildBizServices                                *)
(* ---------------------------------------------------------------------- *)

\* NewFromConfig: the generator takes the node id the config holds now.
NewFromConfig(p) == nodeID[p]

\* GeneratorCreater.Create
Create(p) == NewFromConfig(p)

\* main up to InitAll: BuildServices makes the GeneratorCreater (NewCreater),
\* BuildBizServices makes the user service, whose constructor calls Create.
\* Init then begins by looking at the configured range, which touches nothing
\* another process sees.
Build(p) ==
    /\ pc[p] = "new"
    /\ gen' = [gen EXCEPT ![p] = Create(p)]
    /\ pc' = [pc EXCEPT ![p] = InitStart]
    /\ id' = [id EXCEPT ![p] = FirstID]
    /\ UNCHANGED <<now, rev, store, kvMod, claimKey, nodeID, hb, hbMod,
                   refused,
                   initialClaims, EtcdNodIDRange>>
    /\ UNCHANGED rvars
    /\ UNCHANGED kvars
    /\ UNCHANGED gvars
    /\ UNCHANGED <<dvars, tvars>>

(* ---------------------------------------------------------------------- *)
(* GeneratorCreater.Init                                                   *)
(* ---------------------------------------------------------------------- *)

\* The next iteration of the cleanup loop, or the start of the claim loop.
CleanupNext(p) ==
    IF id[p] < EtcdNodIDRange[2]
    THEN /\ id' = [id EXCEPT ![p] = id[p] + 1]
         /\ pc' = [pc EXCEPT ![p] = "cleanupGet"]
    ELSE /\ id' = [id EXCEPT ![p] = FirstID]
         /\ pc' = [pc EXCEPT ![p] = "claimGet"]

\* The next iteration of the claim loop, or the failure after the loop when
\* allocatedID is still -1.
ClaimNext(p) ==
    IF id[p] < EtcdNodIDRange[2]
    THEN /\ id' = [id EXCEPT ![p] = id[p] + 1]
         /\ pc' = [pc EXCEPT ![p] = "claimGet"]
    ELSE /\ id' = [id EXCEPT ![p] = FirstID]
         /\ pc' = [pc EXCEPT ![p] = "no_available_node_id"]

\* Cleanup pass: client.Get and the staleness test.
InitCleanupGet(p) ==
    /\ pc[p] = "cleanupGet"
    /\ IF Present(id[p]) /\ Decodes(id[p]) /\ IsStale(store[id[p]].hb, now)
       THEN /\ pc' = [pc EXCEPT ![p] = "cleanupTxn"]
            /\ kvMod' = [kvMod EXCEPT ![p] = store[id[p]].mod]
            /\ UNCHANGED id
       ELSE /\ CleanupNext(p)
            /\ UNCHANGED kvMod
    /\ UNCHANGED <<now, rev, store, claimKey, nodeID, gen, hb, hbMod,
                   refused,
                   initialClaims, EtcdNodIDRange>>
    /\ UNCHANGED rvars
    /\ UNCHANGED kvars
    /\ UNCHANGED gvars
    /\ UNCHANGED <<dvars, tvars>>

\* A cleanup that deletes whatever the key holds now.
CleanupCompareNone(p, k) == TRUE

\* A cleanup that compares the key's Version with the ModRevision it read.
CleanupCompareVersion(p, k) == store[k].ver = kvMod[p]

\* The compare of the cleanup transaction.
CleanupCompare(p, k) == store[k].mod = kvMod[p]

\* Cleanup pass: Txn If(ModRevision(key) = kv.ModRevision) Then(OpDelete).
InitCleanupTxn(p) ==
    /\ pc[p] = "cleanupTxn"
    /\ IF CleanupCompare(p, id[p])
       THEN /\ store' = OpDelete(id[p])
            /\ rev' = rev + 1
            /\ refused' = "none"
       ELSE /\ refused' = "cleanup"
            /\ UNCHANGED <<store, rev>>
    /\ kvMod' = [kvMod EXCEPT ![p] = 0]
    /\ CleanupNext(p)
    /\ UNCHANGED <<now, claimKey, nodeID, gen, hb, hbMod,
                   initialClaims, EtcdNodIDRange>>
    /\ UNCHANGED rvars
    /\ UNCHANGED kvars
    /\ UNCHANGED gvars
    /\ UNCHANGED <<dvars, tvars>>

\* Claim pass: client.Get; an occupied key is skipped.
InitClaimGet(p) ==
    /\ pc[p] = "claimGet"
    /\ IF Present(id[p])
       THEN ClaimNext(p)
       ELSE /\ pc' = [pc EXCEPT ![p] = "claimTxn"]
            /\ UNCHANGED id
    /\ UNCHANGED <<now, rev, store, kvMod, claimKey, nodeID, gen, hb, hbMod,
                   refused,
                   initialClaims, EtcdNodIDRange>>
    /\ UNCHANGED rvars
    /\ UNCHANGED kvars
    /\ UNCHANGED gvars
    /\ UNCHANGED <<dvars, tvars>>

\* A claim that is written without a compare.
ClaimCompareNone(k) == TRUE

\* The compare of the claim transaction: Version(key) = 0.
ClaimCompare(k) == store[k].ver = 0

\* Claim pass: Txn If(Version(key) = 0) Then(OpPut); on success the tail of
\* Init sets cfg.NodeID and claimKey and starts the heartbeat goroutine.
InitClaimTxn(p) ==
    /\ pc[p] = "claimTxn"
    /\ IF ClaimCompare(id[p])
       THEN /\ store' = OpPut(id[p], p, now)
            /\ rev' = rev + 1
            /\ refused' = "none"
            /\ nodeID' = [nodeID EXCEPT ![p] = id[p]]
            /\ claimKey' = [claimKey EXCEPT ![p] = id[p]]
            /\ hb' = [hb EXCEPT ![p] = "wait"]
            /\ pc' = [pc EXCEPT ![p] = "inited"]
            /\ id' = [id EXCEPT ![p] = FirstID]
       ELSE /\ refused' = "claim"
            /\ ClaimNext(p)
            /\ UNCHANGED <<store, rev, nodeID, claimKey, hb>>
    /\ UNCHANGED <<now, kvMod, gen, hbMod,
                   initialClaims, EtcdNodIDRange>>
    /\ UNCHANGED rvars
    /\ UNCHANGED kvars
    /\ UNCHANGED gvars
    /\ UNCHANGED <<dvars, tvars>>

(* ---------------------------------------------------------------------- *)
(* GeneratorCreater.heartbeat / keepAlive                                  *)
(* ---------------------------------------------------------------------- *)

\* The ticker of p's heartbeat fires one interval after p wrote its claim
\* last; a claim that is gone or another's shows that this was long ago.
TickDue(p) ==
    store[claimKey[p]].owner = p => store[claimKey[p]].hb < now

\* A heartbeat that goes on whatever it reads.
OwnsClaimAny(p) == TRUE

\* keepAlive's tests of what it read: len(getResp.Kvs) # 0 and
\* claim.Owner = GetServerID().
OwnsClaim(p) == Present(claimKey[p]) /\ store[claimKey[p]].owner = p

\* A tick of the heartbeat: client.Get and the owner test.  A tick
\* that finds the key missing or another owner logs it and returns; the
\* heartbeat then waits for the next tick ("lost").
KeepAliveGet(p) ==
    /\ hb[p] \in {"wait", "lost"}
    /\ TickDue(p)
    /\ IF OwnsClaim(p)
       THEN /\ hb' = [hb EXCEPT ![p] = "txn"]
            /\ hbMod' = [hbMod EXCEPT ![p] = store[claimKey[p]].mod]
       ELSE /\ hb' = [hb EXCEPT ![p] = "lost"]
            /\ UNCHANGED hbMod
    /\ UNCHANGED <<now, rev, store, pc, id, kvMod, claimKey, nodeID, gen,
                   refused,
                   initialClaims, EtcdNodIDRange>>
    /\ UNCHANGED rvars
    /\ UNCHANGED kvars
    /\ UNCHANGED gvars
    /\ UNCHANGED <<dvars, tvars>>

\* A heartbeat that is written without a compare.
KeepAliveCompareNone(p, k) == TRUE

\* The compare of the heartbeat transaction.
KeepAliveCompare(p, k) == store[k].mod = hbMod[p]

\* Txn If(ModRevision(claimKey) = kv.ModRevision) Then(OpPut).  The call may
\* be in flight when Stop cancels the heartbeat's context ("txnCancelled").
KeepAliveTxn(p) ==
    /\ hb[p] \in {"txn", "txnCancelled"}
    /\ IF KeepAliveCompare(p, claimKey[p])
       THEN /\ store' = OpPut(claimKey[p], p, now)
            /\ rev' = rev + 1
            /\ refused' = "none"
       ELSE /\ refused' = "heartbeat"
            /\ UNCHANGED <<store, rev>>
    /\ hb' = [hb EXCEPT ![p] = IF hb[p] = "txn" THEN "wait" ELSE "off"]
    /\ hbMod' = [hbMod EXCEPT ![p] = 0]
    /\ UNCHANGED <<now, pc, id, kvMod, claimKey, nodeID, gen,
                   initialClaims, EtcdNodIDRange>>
    /\ UNCHANGED rvars
    /\ UNCHANGED kvars
    /\ UNCHANGED gvars
    /\ UNCHANGED <<dvars, tvars>>

\* A transaction whose context was cancelled before it was sent.
KeepAliveCancelled(p) ==
    /\ hb[p] = "txnCancelled"
    /\ hb' = [hb EXCEPT ![p] = "off"]
    /\ hbMod' = [hbMod EXCEPT ![p] = 0]
    /\ UNCHANGED <<now, rev, store, pc, id, kvMod, claimKey, nodeID, gen,
                   refused,
                   initialClaims, EtcdNodIDRange>>
    /\ UNCHANGED rvars
    /\ UNCHANGED kvars
    /\ UNCHANGED gvars
    /\ UNCHANGED <<dvars, tvars>>

(* ---------------------------------------------------------------------- *)
(* GeneratorCreater.Stop                                                   *)
(* ---------------------------------------------------------------------- *)

\* f.registry.GetClient() is the registry's client, which the registry's Stop
\* closes; a Get on a closed client fails.
ClientOpen == stop # "stopped"

\* nodeHearbetCancel, then client.Get and the owner test.
StopGet(p) ==
    /\ pc[p] = "inited"
    /\ hb' = [hb EXCEPT ![p] = IF hb[p] = "txn" THEN "txnCancelled" ELSE "off"]
    /\ IF ClientOpen /\ Present(claimKey[p]) /\ store[claimKey[p]].owner = p
       THEN pc' = [pc EXCEPT ![p] = "stopDelete"]
       ELSE pc' = [pc EXCEPT ![p] = "stopped"]
    /\ UNCHANGED <<now, rev, store, id, kvMod, claimKey, nodeID, gen, hbMod,
                   refused,
                   initialClaims, EtcdNodIDRange>>
    /\ UNCHANGED rvars
    /\ UNCHANGED kvars
    /\ UNCHANGED gvars
    /\ UNCHANGED <<dvars, tvars>>

\* Whether Stop's delete removes the key as the store holds it now.
StopDeletes(p, k) == Present(k)

\* client.Delete(claimKey)
StopDelete(p) ==
    /\ pc[p] = "stopDelete"
    /\ IF StopDeletes(p, claimKey[p])
       THEN /\ store' = OpDelete(claimKey[p])
            /\ rev' = rev + 1
       ELSE UNCHANGED <<store, rev>>
    /\ pc' = [pc EXCEPT ![p] = "stopped"]
    /\ UNCHANGED <<now, id, kvMod, claimKey, nodeID, gen, hb, hbMod, refused,
                   initialClaims, EtcdNodIDRange>>
    /\ UNCHANGED rvars
    /\ UNCHANGED kvars
    /\ UNCHANGED gvars
    /\ UNCHANGED <<dvars, tvars>>

\* Time passes.
Tick ==
    /\ now < MaxTime
    /\ now' = now + 1
    /\ UNCHANGED <<rev, store, pc, id, kvMod, claimKey, nodeID, gen, hb,
                   hbMod, refused,
                   initialClaims, EtcdNodIDRange>>
    /\ UNCHANGED rvars
    /\ UNCHANGED kvars
    /\ UNCHANGED gvars
    /\ UNCHANGED <<dvars, tvars>>

(* ---------------------------------------------------------------------- *)
(* The store's leases and the endpoint keys of one service                 *)
(* ---------------------------------------------------------------------- *)

\* The endpoints (addr:port) that may be registered for the service.  A key
\* /services/<service>/<addr>:<port> and the address addr:port the resolver
\* builds from its value name the same endpoint.
Keys == 1 .. NumEndpoints

\* The lease id of a key that is absent.
NoLease == 0

\* A watch on the service's prefix gets a response for every change made
\* after the watch was created.
Notify(changed) ==
    watchPending' = (watchPending \/ (rs = "watching" /\ changed))

\* client.Grant: a lease the store has not issued before.
Grant(l) ==
    /\ nextLease < MaxLeases
    /\ l = nextLease + 1
    /\ nextLease' = l
    /\ leases' = leases \cup {l}

\* The store drops a lease that was not kept alive, and with it every key
\* attached to it.
LeaseExpire(l) ==
    /\ l \in leases
    /\ leases' = leases \ {l}
    /\ eps' = [k \in Keys |-> IF eps[k] = l THEN NoLease ELSE eps[k]]
    /\ Notify(\E k \in Keys : eps[k] = l)
    /\ UNCHANGED <<nextLease, inited, leaseID, registrations, ka, regs, todo,
                   kaResult, rs, addrs>>
    /\ UNCHANGED svars
    /\ UNCHANGED rcall
    /\ UNCHANGED avars
    /\ UNCHANGED kvars
    /\ UNCHANGED gvars
    /\ UNCHANGED <<dvars, tvars>>

InitR ==
    /\ leases = {}
    /\ nextLease = 0
    /\ eps = [k \in Keys |-> NoLease]
    /\ inited = FALSE
    /\ leaseID = NoLease
    /\ registrations = {}
    /\ ka = "none"
    /\ regs = {}
    /\ todo = {}
    /\ kaResult = "none"
    /\ rs = "none"
    /\ addrs = {}
    /\ watchPending = FALSE
    /\ stop = "running"
    /\ stopTodo = {}
    /\ rcall = "nil"

\* client.Close has returned: every later call on the client fails.
Closed == stop = "stopped"

\* Where heartbeat's loop is after keepAlive returned: at the select, or,
\* with stopChan closed and the ticker not due, out of the loop.
KaIdle == IF stop = "running" THEN "wait" ELSE "off"

(* ---------------------------------------------------------------------- *)
(* ServiceRegistry                                                         *)
(* ---------------------------------------------------------------------- *)

\* ServiceRegistry.Init: Grant, p.leaseID = lease.ID, go p.heartbeat().
RegistryInit ==
    /\ ~inited
    /\ \E l \in 1 .. MaxLeases :
          /\ Grant(l)
          /\ leaseID' = l
    /\ inited' = TRUE
    /\ ka' = "wait"
    /\ UNCHANGED <<eps, registrations, regs, todo, kaResult, rs, addrs,
                   watchPending>>
    /\ UNCHANGED svars
    /\ UNCHANGED rcall
    /\ UNCHANGED avars
    /\ UNCHANGED kvars
    /\ UNCHANGED gvars
    /\ UNCHANGED <<dvars, tvars>>

\* The values a read of p.leaseID in putService may return on the caller's
\* goroutine: the heartbeat goroutine writes the field without a lock, so
\* while a recovery runs the caller may still read the lease that was lost.
ReadLeaseID ==
    IF ka = "reput" THEN {leaseID, leaseID - 1} ELSE {leaseID}

\* client.Put(key, value, WithLease(l)); the store refuses a lease it does
\* not hold.
putService(k, l) == [eps EXCEPT ![k] = l]

\* A Register that enters the key in the table whatever putService returned.
RegistrationsAfterAlways(k, err) == registrations \cup {k}

\* Register after putService: on an error the table is left as it is,
\* otherwise p.registrations[key] is set.
RegistrationsAfter(k, err) ==
    IF err = "nil" THEN registrations \cup {k} ELSE registrations

\* ServiceRegistry.Register: an empty serviceName is rejected; otherwise
\* putService, whose Put the store refuses for a lease it does not hold and
\* which may not reach the store at all, then the entry in p.registrations.
Register(serviceName, k) ==
    /\ inited
    /\ stop = "running"
    /\ IF serviceName = EmptyName
       THEN /\ rcall' = "service name is empty"
            /\ UNCHANGED <<eps, registrations, watchPending>>
       ELSE \E l \in ReadLeaseID, reached \in BOOLEAN :
          IF l \in leases /\ reached
          THEN /\ eps' = putService(k, l)
               /\ registrations' = RegistrationsAfter(k, "nil")
               /\ Notify(TRUE)
               /\ UNCHANGED rcall
          ELSE /\ rcall' = "failed to register service"
               /\ registrations' =
                     RegistrationsAfter(k, "failed to register service")
               /\ UNCHANGED <<eps, watchPending>>
    /\ UNCHANGED <<leases, nextLease, inited, leaseID, ka, regs, todo,
                   kaResult, rs, addrs>>
    /\ UNCHANGED svars
    /\ UNCHANGED avars
    /\ UNCHANGED kvars
    /\ UNCHANGED gvars
    /\ UNCHANGED <<dvars, tvars>>

\* The body of Unregister: client.Delete, then delete(p.registrations).
UnregisterCall(k) ==
    /\ eps' = [eps EXCEPT ![k] = NoLease]
    /\ registrations' = registrations \ {k}
    /\ Notify(eps[k] # NoLease)

\* ServiceRegistry.Unregister, called by the registry's user.
Unregister(k) ==
    /\ inited
    /\ stop = "running"
    /\ UnregisterCall(k)
    /\ UNCHANGED <<leases, nextLease, inited, leaseID, ka, regs, todo,
                   kaResult, rs, addrs>>
    /\ UNCHANGED svars
    /\ UNCHANGED rcall
    /\ UNCHANGED avars
    /\ UNCHANGED kvars
    /\ UNCHANGED gvars
    /\ UNCHANGED <<dvars, tvars>>

\* A tick of heartbeat: keepAlive calls KeepAliveOnce(p.leaseID); "lease not
\* found" sends it into recreateLeaseAndReregister.
keepAlive ==
    /\ ka = "wait"
    /\ IF Closed
       THEN /\ kaResult' = "failed"
            /\ ka' = KaIdle
       ELSE IF leaseID \in leases
       THEN /\ kaResult' = "ok"
            /\ ka' = KaIdle
       ELSE /\ ka' = "grant"
            /\ UNCHANGED kaResult
    /\ regs' = {}
    /\ UNCHANGED <<leases, nextLease, eps, inited, leaseID, registrations,
                   todo, rs, addrs, watchPending>>
    /\ UNCHANGED svars
    /\ UNCHANGED rcall
    /\ UNCHANGED avars
    /\ UNCHANGED kvars
    /\ UNCHANGED gvars
    /\ UNCHANGED <<dvars, tvars>>

\* A recovery that goes on with the lease it lost.
NewLeaseIDKept(l) == leaseID

\* p.leaseID = lease.ID
NewLeaseID(l) == l

\* recreateLeaseAndReregister: Grant, the new p.leaseID, and the snapshot of
\* p.registrations; with nothing to re-register it returns nil.
recreateLease ==
    /\ ka = "grant"
    /\ ~Closed
    /\ \E l \in 1 .. MaxLeases :
          /\ Grant(l)
          /\ leaseID' = NewLeaseID(l)
    /\ regs' = registrations
    /\ todo' = registrations
    /\ IF registrations = {}
       THEN /\ ka' = KaIdle
            /\ kaResult' = "recovered"
       ELSE /\ ka' = "reput"
            /\ UNCHANGED kaResult
    /\ UNCHANGED <<eps, inited, registrations, rs, addrs, watchPending>>
    /\ UNCHANGED svars
    /\ UNCHANGED rcall
    /\ UNCHANGED avars
    /\ UNCHANGED kvars
    /\ UNCHANGED gvars
    /\ UNCHANGED <<dvars, tvars>>

\* One iteration of the re-registration loop: putService of an entry of the
\* snapshot (the snapshot is in the map's iteration order).  A refused Put
\* ends the recovery with its error; after the last entry keepAlive returns
\* nil.
reregister ==
    /\ ka = "reput"
    /\ \E k \in todo :
          IF leaseID \in leases /\ ~Closed
          THEN /\ eps' = putService(k, leaseID)
               /\ Notify(TRUE)
               /\ todo' = todo \ {k}
               /\ IF todo \ {k} = {}
                  THEN /\ ka' = KaIdle
                       /\ kaResult' = "recovered"
                  ELSE UNCHANGED <<ka, kaResult>>
          ELSE /\ ka' = KaIdle
               /\ kaResult' = "failed"
               /\ todo' = {}
               /\ UNCHANGED <<eps, watchPending>>
    /\ regs' = IF kaResult' = "failed" THEN {} ELSE regs
    /\ UNCHANGED <<leases, nextLease, inited, leaseID, registrations,
                   rs, addrs>>
    /\ UNCHANGED svars
    /\ UNCHANGED rcall
    /\ UNCHANGED avars
    /\ UNCHANGED kvars
    /\ UNCHANGED gvars
    /\ UNCHANGED <<dvars, tvars>>

\* The Put of a re-registration does not reach the store: the recovery
\* returns the error with the rest of the snapshot not written.
reregisterFails ==
    /\ ka = "reput"
    /\ ka' = KaIdle
    /\ kaResult' = "failed"
    /\ todo' = {}
    /\ regs' = {}
    /\ UNCHANGED <<leases, nextLease, eps, inited, leaseID, registrations,
                   rs, addrs, watchPending>>
    /\ UNCHANGED svars
    /\ UNCHANGED rcall
    /\ UNCHANGED avars
    /\ UNCHANGED kvars
    /\ UNCHANGED gvars
    /\ UNCHANGED <<dvars, tvars>>

\* The Grant of a recovery fails on a closed client: keepAlive returns the
\* error.
recreateLeaseClosed ==
    /\ ka = "grant"
    /\ Closed
    /\ ka' = KaIdle
    /\ kaResult' = "failed"
    /\ UNCHANGED <<leases, nextLease, eps, inited, leaseID, registrations,
                   regs, todo, rs, addrs, watchPending>>
    /\ UNCHANGED svars
    /\ UNCHANGED rcall
    /\ UNCHANGED avars
    /\ UNCHANGED kvars
    /\ UNCHANGED gvars
    /\ UNCHANGED <<dvars, tvars>>

\* heartbeat's select takes the closed stopChan and the goroutine returns.
heartbeatStop ==
    /\ ka = "wait"
    /\ stop # "running"
    /\ ka' = "off"
    /\ UNCHANGED <<leases, nextLease, eps, inited, leaseID, registrations,
                   regs, todo, kaResult, rs, addrs, watchPending>>
    /\ UNCHANGED svars
    /\ UNCHANGED rcall
    /\ UNCHANGED avars
    /\ UNCHANGED kvars
    /\ UNCHANGED gvars
    /\ UNCHANGED <<dvars, tvars>>

(* ---------------------------------------------------------------------- *)
(* ServiceRegistry.Stop                                                    *)
(* ---------------------------------------------------------------------- *)

\* Stop: close(p.stopChan) and the snapshot of p.registrations.
StopSnapshot ==
    /\ inited
    /\ stop = "running"
    /\ stop' = "stopping"
    /\ stopTodo' = registrations
    /\ UNCHANGED <<leases, nextLease, eps, inited, leaseID, registrations, ka,
                   regs, todo, kaResult, rs, addrs, watchPending>>
    /\ UNCHANGED rcall
    /\ UNCHANGED avars
    /\ UNCHANGED kvars
    /\ UNCHANGED gvars
    /\ UNCHANGED <<dvars, tvars>>

\* Stop: p.Unregister of an entry of the snapshot.
StopUnregister ==
    /\ stop = "stopping"
    /\ \E k \in stopTodo :
          /\ UnregisterCall(k)
          /\ stopTodo' = stopTodo \ {k}
    /\ UNCHANGED <<leases, nextLease, inited, leaseID, ka, regs, todo,
                   kaResult, rs, addrs, stop>>
    /\ UNCHANGED rcall
    /\ UNCHANGED avars
    /\ UNCHANGED kvars
    /\ UNCHANGED gvars
    /\ UNCHANGED <<dvars, tvars>>

\* Stop: the 50ms sleep, client.Close and SetStopped(true).
StopClose ==
    /\ stop = "stopping"
    /\ stopTodo = {}
    /\ stop' = "stopped"
    /\ UNCHANGED <<leases, nextLease, eps, inited, leaseID, registrations, ka,
                   regs, todo, kaResult, rs, addrs, watchPending, stopTodo>>
    /\ UNCHANGED rcall
    /\ UNCHANGED avars
    /\ UNCHANGED kvars
    /\ UNCHANGED gvars
    /\ UNCHANGED <<dvars, tvars>>

(* ---------------------------------------------------------------------- *)
(* etcdResolver                                                            *)
(* ---------------------------------------------------------------------- *)

\* ServiceRegistry.GetServices: the endpoints under the service's prefix.
GetServices == {k \in Keys : eps[k] # NoLease}

\* etcdResolver.resolveNow: GetServices and cc.UpdateState.
resolveNow == addrs' = GetServices

\* etcdResolverBuilder.Build: the initial resolve; the watch loop is started
\* as a goroutine and has not created its watch yet.
ResolverBuild ==
    /\ rs = "none"
    /\ resolveNow
    /\ rs' = "resolved"
    /\ UNCHANGED <<leases, nextLease, eps, inited, leaseID, registrations, ka,
                   regs, todo, kaResult, watchPending>>
    /\ UNCHANGED svars
    /\ UNCHANGED rcall
    /\ UNCHANGED avars
    /\ UNCHANGED kvars
    /\ UNCHANGED gvars
    /\ UNCHANGED <<dvars, tvars>>

\* watchLoop: client.Watch on the prefix, from the store's revision at the
\* time of the call.
watchLoopWatch ==
    /\ rs = "resolved"
    /\ rs' = "watching"
    /\ watchPending' = FALSE
    /\ UNCHANGED <<leases, nextLease, eps, inited, leaseID, registrations, ka,
                   regs, todo, kaResult, addrs>>
    /\ UNCHANGED svars
    /\ UNCHANGED rcall
    /\ UNCHANGED avars
    /\ UNCHANGED kvars
    /\ UNCHANGED gvars
    /\ UNCHANGED <<dvars, tvars>>

\* watchLoop: a response arrives on the watch channel and the loop resolves
\* again.
watchLoopEvent ==
    /\ rs = "watching"
    /\ watchPending
    /\ resolveNow
    /\ watchPending' = FALSE
    /\ UNCHANGED <<leases, nextLease, eps, inited, leaseID, registrations, ka,
                   regs, todo, kaResult, rs>>
    /\ UNCHANGED svars
    /\ UNCHANGED rcall
    /\ UNCHANGED avars
    /\ UNCHANGED kvars
    /\ UNCHANGED gvars
    /\ UNCHANGED <<dvars, tvars>>

(* ---------------------------------------------------------------------- *)
(* Keys of the service directory                                           *)
(* ---------------------------------------------------------------------- *)

\* Strings are sequences of tokens; the characters that decide whether one
\* key is a prefix of another are tokens of their own.
HasPrefix(s, prefix) ==
    /\ Len(prefix) <= Len(s)
    /\ SubSeq(s, 1, Len(prefix)) = prefix

\* p.serviceAddr == "": no exposed address is configured.
NoAddr == ""
ExposeAddr == "x"
Addrs == {"a"}
Ports == 1 .. NumPorts
Infos == [addr : Addrs, port : Ports]

\* cfg.ServicePrefix after NewServiceRegistry put the "/" before it.
servicePrefix == <<"/plaud">>

\* ServiceInfo.GetID: fmt.Sprintf("%s:%d", p.Addr, p.Port)
GetID(info) == <<info.addr, ":", info.port>>

\* The directory's search key without the "/" that ends it.
getServiceKeyNoSlash(serviceName) ==
    servicePrefix \o <<"/services/">> \o serviceName

\* getServiceKey: p.servicePrefix + "/services/<serviceName>/"
getServiceKey(serviceName) ==
    servicePrefix \o <<"/services/">> \o serviceName \o <<"/">>

\* A node key that takes the address of info also when an address is
\* exposed.
getServiceNodeKeyLiteral(serviceName, info) ==
    servicePrefix \o <<"/services/">> \o serviceName \o <<"/">> \o GetID(info)

\* getServiceNodeKey: p.servicePrefix + "/services/<serviceName>/<serverID>",
\* the exposed address in the place of info.Addr when there is one.
getServiceNodeKey(serviceName, info) ==
    LET mockInfo == IF serviceAddr # NoAddr
                    THEN [info EXCEPT !.addr = serviceAddr]
                    ELSE info
    IN  servicePrefix \o <<"/services/">> \o serviceName \o <<"/">>
            \o GetID(mockInfo)

\* The key putService writes: info.Addr = p.serviceAddr, then
\* getServiceNodeKey of the changed info.
putServiceKey(serviceName, info) ==
    getServiceNodeKey(serviceName,
                      IF serviceAddr # NoAddr
                      THEN [info EXCEPT !.addr = serviceAddr]
                      ELSE info)

\* The node keys a registry, with or without an exposed address, can write
\* for a service.
KeysOf(serviceName) ==
    {servicePrefix \o <<"/services/">> \o serviceName \o <<"/">>
         \o <<a, ":", p>> : a \in Addrs \cup {ExposeAddr}, p \in Ports}

KeyUniverse == UNION {KeysOf(svc) : svc \in Services}

\* info of a call that takes none.
NoInfo == [addr |-> NoAddr, port |-> 0]

\* A call, its arguments, the error and the services it returned.
Call(op, serviceName, info, err, services) ==
    [op |-> op, svc |-> serviceName, info |-> info, err |-> err,
     services |-> services]

\* The keys the store holds.
Stored == DOMAIN dir

\* What the store holds under key k.
DirAt(k) == IF k \in DOMAIN dir THEN dir[k] ELSE "absent"

\* A Put that leaves a key the store holds as it is.
DirPutIfAbsent(k, value) ==
    [j \in DOMAIN dir \cup {k} |-> IF j \in DOMAIN dir THEN dir[j] ELSE value]

\* The store after a Put of key k.
DirPut(k, value) ==
    [j \in DOMAIN dir \cup {k} |-> IF j = k THEN value ELSE dir[j]]

\* The store after a Delete of key k.
DirDelete(k) == [j \in DOMAIN dir \ {k} |-> dir[j]]

InitK ==
    /\ dir = <<>>
    /\ ktable = {}
    /\ serviceAddr \in {NoAddr, ExposeAddr}
    /\ kcall = Call("none", EmptyName, NoInfo, "nil", {})

\* Register with its key spelled out: the record is put and entered in the
\* table.  (kcall keeps the arguments of Unregister and GetServices only; of
\* a Register it keeps whether the table held the key already.)
KRegister(serviceName, info) ==
    /\ Cardinality(Stored \cup {putServiceKey(serviceName, info)})
          <= MaxRecords
    /\ dir' = DirPut(putServiceKey(serviceName, info), "record")
    /\ ktable' = ktable \cup {putServiceKey(serviceName, info)}
    /\ kcall' = Call(IF putServiceKey(serviceName, info) \in ktable
                      THEN "Register again" ELSE "Register",
                      EmptyName, NoInfo, "nil", {})
    /\ UNCHANGED serviceAddr
    /\ UNCHANGED <<avars, rvars, gvars, dvars, tvars>>

\* Unregister with its key spelled out: the key is deleted (it may be
\* absent) and leaves the table.
KUnregister(serviceName, info) ==
    /\ dir' = DirDelete(getServiceNodeKey(serviceName, info))
    /\ ktable' = ktable \ {getServiceNodeKey(serviceName, info)}
    /\ kcall' = Call("Unregister", serviceName, info, "nil", {})
    /\ UNCHANGED serviceAddr
    /\ UNCHANGED <<avars, rvars, gvars, dvars, tvars>>

\* Another writer puts a value that is not the JSON of a ServiceInfo.
PutUndecodable(k) ==
    /\ Cardinality(Stored \cup {k}) <= MaxRecords
    /\ dir' = DirPut(k, "garbage")
    /\ UNCHANGED <<ktable, serviceAddr, kcall>>
    /\ UNCHANGED <<avars, rvars, gvars, dvars, tvars>>

\* GetServices: client.Get(getServiceKey, WithPrefix()), and of the values
\* returned those json.Unmarshal accepts.
GetServicesOf(serviceName) ==
    {k \in KeyUniverse :
        /\ HasPrefix(k, getServiceKey(serviceName))
        /\ DirAt(k) = "record"}

KGetServices(serviceName) ==
    /\ kcall' = Call("GetServices", serviceName, NoInfo, "nil",
                      GetServicesOf(serviceName))
    /\ UNCHANGED <<dir, ktable, serviceAddr>>
    /\ UNCHANGED <<avars, rvars, gvars, dvars, tvars>>

NextK ==
    \/ \E svc \in Services, info \in Infos : KRegister(svc, info)
    \/ \E svc \in Services, info \in Infos : KUnregister(svc, info)
    \/ \E k \in KeyUniverse : PutUndecodable(k)
    \/ \E svc \in Services : KGetServices(svc)

(* ---------------------------------------------------------------------- *)
(* Generator                                                               *)
(* ---------------------------------------------------------------------- *)

\* The layout of an id, the library's 10 node bits and 12 step bits scaled
\* down: the time above the node, the node above the step.
NodeBits == 1
StepBits == 1
NodeMax == 2 ^ NodeBits - 1
StepMask == 2 ^ StepBits - 1

\* cfg.NodeID of the constructions: the node ids the layout has room for and
\* one it has not.
ConfigNodes == 0 .. NodeMax + 1

\* cfg.Epoch of the constructions and time.Parse(time.RFC3339, cfg.Epoch)
\* in milliseconds: two dates and a string that is no date.
ParseError == -2
EpochStrings == {"epoch0", "epoch1", "not a date"}
ParseEpoch(str) ==
    CASE str = "epoch0" -> 0
      [] str = "epoch1" -> 1
      [] OTHER -> ParseError

\* snowflake.Epoch before anyone sets it.
DefaultEpoch == -1

\* A generator that was not constructed, and the id of one that issued none.
NoNode ==
    [made |-> FALSE, nodeID |-> 0, node |-> 0, epoch |-> 0, time |-> 0,
     step |-> 0]
NoneID == -1

\* An installation that is not guarded: every construction sets the epoch.
OnceDoAlways(done) == TRUE

\* initEpochOnce.Do(f): f runs unless a Do has run before.
OnceDo(done) == ~done

\* A construction that gives every generator node 0.
GeneratorNodeIDZero(cfgNodeID) == 0

\* The node id NewFromConfig hands to snowflake.NewNode: cfg.NodeID.
GeneratorNodeID(cfgNodeID) == cfgNodeID

\* snowflake.NewNode: a node that reads the clock against the epoch
\* installed at the time.
NewNode(node, epoch) ==
    [made |-> TRUE, nodeID |-> 0, node |-> node, epoch |-> epoch, time |-> 0,
     step |-> 0]

\* &Generator{node: n, nodeID: cfg.NodeID}
NewGenerator(n, cfgNodeID) == [n EXCEPT !.nodeID = cfgNodeID]

InitG ==
    /\ gclock = 1
    /\ Epoch = DefaultEpoch
    /\ onceDone = FALSE
    /\ gnode = [n \in 0 .. NodeMax |-> NoNode]
    /\ issued = [n \in 0 .. NodeMax |-> {}]
    /\ lastID = [n \in 0 .. NodeMax |-> NoneID]
    /\ gcall = [epoch |-> "none", node |-> 0, err |-> "nil"]

\* NewFromConfig(cfg) for the generator of slot n, cfg.Epoch = str and
\* cfg.NodeID = cfgNodeID: an epoch that does not parse is returned as the
\* error; otherwise the epoch is installed under initEpochOnce and
\* snowflake.NewNode makes the node, or refuses a node id out of range.
NewFromConfigCall(n, str, cfgNodeID) ==
    /\ ~gnode[n].made
    /\ IF ParseEpoch(str) = ParseError
       THEN /\ gcall' = [epoch |-> str, node |-> cfgNodeID,
                         err |-> "invalid snowflake epoch"]
            /\ UNCHANGED <<Epoch, onceDone, gnode>>
       ELSE /\ Epoch' = IF OnceDo(onceDone) THEN ParseEpoch(str) ELSE Epoch
            /\ onceDone' = TRUE
            /\ IF GeneratorNodeID(cfgNodeID) \in 0 .. NodeMax
               THEN /\ gnode' = [gnode EXCEPT
                                   ![n] = NewGenerator(
                                       NewNode(GeneratorNodeID(cfgNodeID),
                                               Epoch'),
                                       cfgNodeID)]
                    /\ gcall' = [epoch |-> str, node |-> cfgNodeID,
                                 err |-> "nil"]
               ELSE /\ gcall' = [epoch |-> str, node |-> cfgNodeID,
                                 err |-> "node number out of range"]
                    /\ UNCHANGED gnode
    /\ UNCHANGED <<gclock, issued, lastID>>
    /\ UNCHANGED <<avars, rvars, kvars, dvars, tvars>>

\* The id of a time, a node and a step.
PackID(time, node, step) ==
    time * 2 ^ (NodeBits + StepBits) + node * 2 ^ StepBits + step

\* The step the node takes at time t.
NextStep(g, t) == IF t = g.time THEN (g.step + 1) % (StepMask + 1) ELSE 0

\* Generator.NextID: node.Generate().Int64().  Generate reads the time since
\* the node's epoch; in the millisecond of its last id it takes the next
\* step, and when the steps of that millisecond are used up it waits for the
\* next millisecond: the call returns then.
NextID(n) ==
    LET g == gnode[n]
        t == gclock - g.epoch
    IN  /\ g.made
        /\ ~(t = g.time /\ g.step = StepMask)
        /\ gnode' = [gnode EXCEPT ![n] = [g EXCEPT !.time = t,
                                                   !.step = NextStep(g, t)]]
        /\ lastID' = [lastID EXCEPT ![n] = PackID(t, g.node, NextStep(g, t))]
        /\ issued' = [issued EXCEPT
                        ![n] = @ \cup {PackID(t, g.node, NextStep(g, t))}]
        /\ UNCHANGED <<gclock, Epoch, onceDone, gcall>>
        /\ UNCHANGED <<avars, rvars, kvars, dvars, tvars>>

\* A millisecond passes.
ClockTick ==
    /\ gclock < MaxClock
    /\ gclock' = gclock + 1
    /\ UNCHANGED <<Epoch, onceDone, gnode, issued, lastID, gcall>>
    /\ UNCHANGED <<avars, rvars, kvars, dvars, tvars>>

NextG ==
    \/ \E n \in 0 .. NodeMax, str \in EpochStrings, cfgNodeID \in ConfigNodes :
          NewFromConfigCall(n, str, cfgNodeID)
    \/ \E n \in 0 .. NodeMax : NextID(n)
    \/ ClockTick

(* ---------------------------------------------------------------------- *)
(* Watch tasks: WatchService and the resolver's watch loop                 *)
(* ---------------------------------------------------------------------- *)

\* What a lookup (GetServices) can come to.
Lookups == {"ok", "failed"}

\* The watch responses: one that carries events, and one whose Err() is not
\* nil.
Responses == {"events", "error"}

\* The channel after one more response, and after the receive of its first.
Send(queue, resp) == Append(queue, resp)
Receive(queue) == Tail(queue)

InitD ==
    /\ disc = [recs |-> {}, stopChan |-> "open", client |-> "open"]
    /\ wsv = [pos |-> "none", queue |-> <<>>, calls |-> 0, last |-> {},
              lookup |-> "none"]
    /\ rsv = [pos |-> "none", queue |-> 0, set |-> FALSE, addrs |-> {},
              err |-> "none", ctx |-> "live", lookup |-> "none",
              first |-> "none"]

\* A record under the prefix is put or deleted: every open watch on the
\* prefix gets a response.
StoreChange(k) ==
    /\ Len(wsv.queue) < MaxQueue
    /\ rsv.queue < MaxQueue
    /\ disc' = [disc EXCEPT !.recs = IF k \in @ THEN @ \ {k} ELSE @ \cup {k}]
    /\ wsv' = IF wsv.pos = "watching" /\ disc.client = "open"
              THEN [wsv EXCEPT !.queue = Send(@, "events")]
              ELSE wsv
    /\ rsv' = IF /\ rsv.pos = "watching" /\ rsv.ctx = "live"
                 /\ disc.client = "open"
              THEN [rsv EXCEPT !.queue = @ + 1]
              ELSE rsv
    /\ UNCHANGED <<avars, rvars, kvars, gvars, tvars>>

\* The store sends a response whose Err() is not nil.
WatchError ==
    /\ wsv.pos = "watching"
    /\ disc.client = "open"
    /\ Len(wsv.queue) < MaxQueue
    /\ wsv' = [wsv EXCEPT !.queue = Send(@, "error")]
    /\ UNCHANGED <<disc, rsv>>
    /\ UNCHANGED <<avars, rvars, kvars, gvars, tvars>>

\* WatchService: client.Watch from the store's revision now, and the task is
\* started.
WatchService ==
    /\ wsv.pos = "none"
    /\ disc.client = "open"
    /\ wsv' = [wsv EXCEPT !.pos = "watching"]
    /\ UNCHANGED <<disc, rsv>>
    /\ UNCHANGED <<avars, rvars, kvars, gvars, tvars>>

\* A callback that is made whatever the lookup came to.
CallbackAfterAny(resp, lookup) == resp = "events"

\* The task calls back when the response has no error and GetServices
\* returned none.
CallbackAfter(resp, lookup) == resp = "events" /\ lookup = "ok"

\* The task receives a response: with an error it goes on; otherwise it runs
\* GetServices, which fails once the client is closed and may fail before,
\* and calls back with the list.
WatchServiceRecv(lookup) ==
    /\ wsv.pos = "watching"
    /\ wsv.queue # <<>>
    /\ wsv.calls < MaxCalls
    /\ lookup = "ok" => disc.client = "open"
    /\ wsv' = IF CallbackAfter(Head(wsv.queue), lookup)
              THEN [wsv EXCEPT !.queue = Receive(@), !.calls = @ + 1,
                               !.last = disc.recs, !.lookup = lookup]
              ELSE [wsv EXCEPT !.queue = Receive(@),
                               !.lookup = IF Head(wsv.queue) = "error"
                                          THEN "none" ELSE lookup]
    /\ UNCHANGED <<disc, rsv>>
    /\ UNCHANGED <<avars, rvars, kvars, gvars, tvars>>

\* The task's select takes <-p.stopChan.
WatchServiceExit ==
    /\ wsv.pos = "watching"
    /\ disc.stopChan = "closed"
    /\ wsv' = [wsv EXCEPT !.pos = "exited"]
    /\ UNCHANGED <<disc, rsv>>
    /\ UNCHANGED <<avars, rvars, kvars, gvars, tvars>>

\* ServiceRegistry.Stop: close(p.stopChan).
StopCloseChan ==
    /\ disc.stopChan = "open"
    /\ disc' = [disc EXCEPT !.stopChan = "closed"]
    /\ UNCHANGED <<wsv, rsv>>
    /\ UNCHANGED <<avars, rvars, kvars, gvars, tvars>>

\* ServiceRegistry.Stop: p.client.Close(), which closes every watch channel
\* of the client.
StopCloseClient ==
    /\ disc.stopChan = "closed"
    /\ disc.client = "open"
    /\ disc' = [disc EXCEPT !.client = "closed"]
    /\ UNCHANGED <<wsv, rsv>>
    /\ UNCHANGED <<avars, rvars, kvars, gvars, tvars>>

\* resolveNow of the resolver: GetServices, and cc.UpdateState with what it
\* returned when it returned no error.
resolveNowWith(r, lookup) ==
    IF lookup = "ok"
    THEN [r EXCEPT !.set = TRUE, !.addrs = disc.recs, !.lookup = lookup]
    ELSE [r EXCEPT !.lookup = lookup]

\* A Build that returns the error of the initial lookup.
BuildErrorOfLookup(lookup) == IF lookup = "ok" THEN "nil" ELSE "failed"

\* The error Build returns.
BuildError(lookup) == "nil"

\* etcdResolverBuilder.Build: the initial resolveNow, go r.watchLoop(), and
\* the resolver is returned.
BuilderBuild(lookup) ==
    /\ rsv.pos = "none"
    /\ lookup = "ok" => disc.client = "open"
    /\ rsv' = [resolveNowWith(rsv, lookup) EXCEPT
                  !.err = BuildError(lookup),
                  !.first = lookup,
                  !.pos = IF BuildError(lookup) = "nil"
                          THEN "built" ELSE "failedBuild"]
    /\ UNCHANGED <<disc, wsv>>
    /\ UNCHANGED <<avars, rvars, kvars, gvars, tvars>>

\* watchLoop: client.Watch(r.ctx, key, WithPrefix()) from the store's
\* revision now.
watchLoopStart ==
    /\ rsv.pos = "built"
    /\ rsv' = [rsv EXCEPT !.pos = "watching"]
    /\ UNCHANGED <<disc, wsv>>
    /\ UNCHANGED <<avars, rvars, kvars, gvars, tvars>>

\* watchLoop receives a response and resolves again.
watchLoopRecv(lookup) ==
    /\ rsv.pos = "watching"
    /\ rsv.queue > 0
    /\ lookup = "ok" => disc.client = "open"
    /\ rsv' = [resolveNowWith(rsv, lookup) EXCEPT !.queue = @ - 1]
    /\ UNCHANGED <<disc, wsv>>
    /\ UNCHANGED <<avars, rvars, kvars, gvars, tvars>>

\* etcdResolver.Close: r.cancel().
ResolverClose ==
    /\ rsv.pos \in {"built", "watching"}
    /\ rsv.ctx = "live"
    /\ rsv' = [rsv EXCEPT !.ctx = "cancelled"]
    /\ UNCHANGED <<disc, wsv>>
    /\ UNCHANGED <<avars, rvars, kvars, gvars, tvars>>

\* A watch channel that is never closed.
ChanClosedNever == FALSE

\* The watch channel of the loop is closed and drained.
ChanClosed ==
    (rsv.ctx = "cancelled" \/ disc.client = "closed") /\ rsv.queue = 0

\* watchLoop returns: <-r.ctx.Done(), or the receive from the closed channel.
watchLoopExit ==
    /\ rsv.pos = "watching"
    /\ rsv.ctx = "cancelled" \/ ChanClosed
    /\ rsv' = [rsv EXCEPT !.pos = "exited"]
    /\ UNCHANGED <<disc, wsv>>
    /\ UNCHANGED <<avars, rvars, kvars, gvars, tvars>>

\* A subscription of WatchService.
NextW ==
    \/ \E k \in Keys : StoreChange(k)
    \/ WatchError
    \/ WatchService
    \/ \E lookup \in Lookups : WatchServiceRecv(lookup)
    \/ WatchServiceExit
    \/ StopCloseChan
    \/ StopCloseClient

\* A resolver.
NextB ==
    \/ \E k \in Keys : StoreChange(k)
    \/ \E lookup \in Lookups : BuilderBuild(lookup)
    \/ watchLoopStart
    \/ \E lookup \in Lookups : watchLoopRecv(lookup)
    \/ ResolverClose
    \/ watchLoopExit
    \/ StopCloseChan
    \/ StopCloseClient

NextA ==
    \/ \E p \in Procs : Build(p)
    \/ \E p \in Procs : InitCleanupGet(p)
    \/ \E p \in Procs : InitCleanupTxn(p)
    \/ \E p \in Procs : InitClaimGet(p)
    \/ \E p \in Procs : InitClaimTxn(p)
    \/ \E p \in Procs : KeepAliveGet(p)
    \/ \E p \in Procs : KeepAliveTxn(p)
    \/ \E p \in Procs : KeepAliveCancelled(p)
    \/ \E p \in Procs : StopGet(p)
    \/ \E p \in Procs : StopDelete(p)
    \/ Tick

\* Another writer puts a value that is no claim record under a claim key.
PutMalformed(k) ==
    /\ Decodes(k)
    /\ rev < MaxRev
    /\ store' = OpPut(k, Malformed, 0)
    /\ rev' = rev + 1
    /\ UNCHANGED <<now, pc, id, kvMod, claimKey, nodeID, gen, hb, hbMod,
                   refused, initialClaims, EtcdNodIDRange>>
    /\ UNCHANGED rvars
    /\ UNCHANGED kvars
    /\ UNCHANGED gvars
    /\ UNCHANGED <<dvars, tvars>>

\* The allocators over a store that other writers write to as well.
NextM ==
    \/ NextA
    \/ \E k \in Ids : PutMalformed(k)

\* The whole range is configured.
WholeRange == EtcdNodIDRange = <<RangeStart, RangeEnd>>

(* ---------------------------------------------------------------------- *)
(* The application: InitAll, the run, StopAll                              *)
(* ---------------------------------------------------------------------- *)

\* The components of the container in the order collectValuesOf meets them:
\* the fields of the embedded app.Services, then the container's own.
FieldOrder == <<"DBClient", "ServiceRegistry", "Snowflake", "UserService">>

Reverse(s) == [i \in 1 .. Len(s) |-> s[Len(s) + 1 - i]]

\* InitAll ranges over the components as collected.
InitOrder == FieldOrder

\* A StopAll that ranges over them in the same order.
StopOrderForward == FieldOrder

\* StopAll: slices.Reverse(stoppableServices).
StopOrder == Reverse(FieldOrder)

\* The process of the application.
AppProc == 1

NoApp == [pos |-> "new", todo |-> <<>>, err |-> "nil"]

\* main builds the services and calls InitAll.
InitAll ==
    /\ app.pos = "new"
    /\ pc[AppProc] # "new"
    /\ app' = [app EXCEPT !.pos = "init", !.todo = InitOrder]
    /\ UNCHANGED <<avars, rvars, kvars, gvars, dvars, tk>>

\* The constructor of the allocator, before InitAll.
AppBuild ==
    /\ app.pos = "new"
    /\ Build(AppProc)

\* exitNow: StopAll after an Init that failed.
InitFailed == [pos |-> "stop", todo |-> StopOrder, err |-> "init"]

\* InitAll: Init of a component other than the registry and the allocator.
InitOther(ok) ==
    /\ app.pos = "init"
    /\ app.todo # <<>>
    /\ Head(app.todo) \notin {"ServiceRegistry", "Snowflake"}
    /\ app' = IF ok THEN [app EXCEPT !.todo = Tail(@)] ELSE InitFailed
    /\ UNCHANGED <<avars, rvars, kvars, gvars, dvars, tk>>

\* InitAll: the steps of the registry's Init and of the allocator's.
InitAllStep ==
    /\ app.pos = "init"
    /\ app.todo # <<>>
    /\ \/ Head(app.todo) = "ServiceRegistry" /\ RegistryInit
       \/ /\ Head(app.todo) = "Snowflake"
          /\ \/ InitCleanupGet(AppProc)
             \/ InitCleanupTxn(AppProc)
             \/ InitClaimGet(AppProc)
             \/ InitClaimTxn(AppProc)

\* InitAll: the Init of the registry or of the allocator returns nil.
InitReturns ==
    /\ app.pos = "init"
    /\ app.todo # <<>>
    /\ \/ Head(app.todo) = "ServiceRegistry" /\ inited
       \/ Head(app.todo) = "Snowflake" /\ pc[AppProc] = "inited"
    /\ app' = [app EXCEPT !.todo = Tail(@)]
    /\ UNCHANGED <<avars, rvars, kvars, gvars, dvars, tk>>

\* InitAll: the Init of the registry fails in Grant, or the allocator's
\* ends with an error.
InitReturnsError ==
    /\ app.pos = "init"
    /\ app.todo # <<>>
    /\ \/ Head(app.todo) = "ServiceRegistry" /\ ~inited
       \/ /\ Head(app.todo) = "Snowflake"
          /\ pc[AppProc] \in {"no_available_node_id", "invalid_range"}
    /\ app' = InitFailed
    /\ UNCHANGED <<avars, rvars, kvars, gvars, dvars, tk>>

\* InitAll returned nil: the application runs.
AppRuns ==
    /\ app.pos = "init"
    /\ app.todo = <<>>
    /\ app' = [app EXCEPT !.pos = "run"]
    /\ UNCHANGED <<avars, rvars, kvars, gvars, dvars, tk>>

\* What the components do while the application runs.
RunStep ==
    /\ app.pos = "run"
    /\ \/ \E k \in Keys : Register(ServiceS, k)
       \/ KeepAliveGet(AppProc)

\* Time passes before the application starts and while it runs.
TimePasses ==
    /\ app.pos \in {"new", "run"}
    /\ Tick

\* A heartbeat transaction that is in flight ends, whatever main does.
InFlightStep ==
    /\ app.pos \in {"run", "stop"}
    /\ KeepAliveTxn(AppProc) \/ KeepAliveCancelled(AppProc)

\* main: the deferred stopAllServices.
StopAll ==
    /\ app.pos = "run"
    /\ app' = [app EXCEPT !.pos = "stop", !.todo = StopOrder]
    /\ UNCHANGED <<avars, rvars, kvars, gvars, dvars, tk>>

\* StopAll: Stop of another component; an error ends StopAll.
StopOther(ok) ==
    /\ app.pos = "stop"
    /\ app.todo # <<>>
    /\ Head(app.todo) \notin {"ServiceRegistry", "Snowflake"}
    /\ app' = IF ok THEN [app EXCEPT !.todo = Tail(@)]
                    ELSE [app EXCEPT !.pos = "done", !.err = "stop"]
    /\ UNCHANGED <<avars, rvars, kvars, gvars, dvars, tk>>

\* StopAll: the steps of the Stop of an allocator and of a registry whose
\* Init succeeded.
StopAllStep ==
    /\ app.pos = "stop"
    /\ app.todo # <<>>
    /\ \/ /\ Head(app.todo) = "Snowflake"
          /\ StopGet(AppProc) \/ StopDelete(AppProc)
       \/ /\ Head(app.todo) = "ServiceRegistry"
          /\ StopSnapshot \/ StopUnregister \/ StopClose

\* StopAll: the Stop of the allocator returns.  Without a claim key it
\* cancels nothing and reads nothing.
AllocStopReturns ==
    /\ app.pos = "stop"
    /\ app.todo # <<>>
    /\ Head(app.todo) = "Snowflake"
    /\ pc[AppProc] \notin {"inited", "stopDelete"}
    /\ app' = [app EXCEPT !.todo = Tail(@)]
    /\ UNCHANGED <<avars, rvars, kvars, gvars, dvars, tk>>

\* StopAll: the Stop of the registry returns.  Without Init its table is
\* empty: it closes stopChan and the client.
RegistryStopReturns ==
    /\ app.pos = "stop"
    /\ app.todo # <<>>
    /\ Head(app.todo) = "ServiceRegistry"
    /\ stop = "stopped" \/ ~inited
    /\ stop' = "stopped"
    /\ app' = [app EXCEPT !.todo = Tail(@)]
    /\ UNCHANGED <<leases, nextLease, eps, inited, leaseID, registrations, ka,
                   regs, todo, kaResult, rs, addrs, watchPending, stopTodo,
                   rcall>>
    /\ UNCHANGED <<avars, kvars, gvars, dvars, tk>>

\* StopAll returned nil.
AppDone ==
    /\ app.pos = "stop"
    /\ app.todo = <<>>
    /\ app' = [app EXCEPT !.pos = "done"]
    /\ UNCHANGED <<avars, rvars, kvars, gvars, dvars, tk>>

NextS ==
    \/ AppBuild
    \/ InitAll
    \/ \E ok \in BOOLEAN : InitOther(ok)
    \/ InitAllStep
    \/ InitReturns
    \/ InitReturnsError
    \/ AppRuns
    \/ RunStep
    \/ TimePasses
    \/ InFlightStep
    \/ StopAll
    \/ \E ok \in BOOLEAN : StopOther(ok)
    \/ StopAllStep
    \/ AllocStopReturns
    \/ RegistryStopReturns
    \/ AppDone

(* ---------------------------------------------------------------------- *)
(* The period of the keep-alive                                            *)
(* ---------------------------------------------------------------------- *)

\* cfg.TTL, in seconds.
ConfiguredTTLs == -1 .. MaxTTL

\* NewServiceRegistry: if ttl <= 0 { ttl = 30 }.
DefaultTTL == 30
EffectiveTTL(cfgTTL) == IF cfgTTL <= 0 THEN DefaultTTL ELSE cfgTTL

\* heartbeat: time.Duration(p.ttl/3) * time.Second, an integer division.
KeepAlivePeriod(ttl) == ttl \div 3

\* time.NewTicker panics when its interval is not positive.
NewTickerPanics(d) == d <= 0

\* A registry that is not constructed yet.
NoTicker(cfgTTL) ==
    [pos |-> "new", cfg |-> cfgTTL, ttl |-> 0, period |-> 0, age |-> 0,
     sinceTick |-> 0, fired |-> 0]

\* NewServiceRegistry.
NewServiceRegistry ==
    /\ tk.pos = "new"
    /\ tk' = [tk EXCEPT !.pos = "created", !.ttl = EffectiveTTL(tk.cfg)]
    /\ UNCHANGED <<avars, rvars, kvars, gvars, dvars, app>>

\* Init: Grant(p.ttl), then go p.heartbeat(), which makes its ticker first.
heartbeatStart ==
    /\ tk.pos = "created"
    /\ tk' = [tk EXCEPT !.period = KeepAlivePeriod(tk.ttl),
                        !.pos = IF NewTickerPanics(KeepAlivePeriod(tk.ttl))
                                THEN "panicked" ELSE "ticking"]
    /\ UNCHANGED <<avars, rvars, kvars, gvars, dvars, app>>

\* A second passes: the lease ages, and it expires at the age of its ttl.
\* A ticker that is due fires before the next second.
Second ==
    /\ tk.pos \in {"ticking", "panicked"}
    /\ tk.pos = "ticking" => tk.sinceTick < tk.period
    /\ tk.age < tk.ttl
    /\ tk' = [tk EXCEPT !.age = @ + 1,
                        !.sinceTick = @ + 1,
                        !.pos = IF tk.age + 1 = tk.ttl /\ @ = "panicked"
                                THEN "expired" ELSE @]
    /\ UNCHANGED <<avars, rvars, kvars, gvars, dvars, app>>

\* <-ticker.C: keepAlive renews the lease.
TickerFires ==
    /\ tk.pos = "ticking"
    /\ tk.sinceTick = tk.period
    /\ tk.fired < MaxFired
    /\ tk' = [tk EXCEPT !.sinceTick = 0, !.age = 0, !.fired = @ + 1]
    /\ UNCHANGED <<avars, rvars, kvars, gvars, dvars, app>>

NextL ==
    \/ NewServiceRegistry
    \/ heartbeatStart
    \/ Second
    \/ TickerFires

\* Every component as it is constructed.
Init ==
    /\ InitA /\ InitR /\ InitK /\ InitG /\ InitD /\ tk = NoTicker(DefaultTTL)
    /\ app = NoApp
    /\ serviceAddr = NoAddr /\ WholeRange

Spec == Init /\ [][NextA]_vars

\* The allocator under the other configurations of the range.
InitRange ==
    /\ InitA /\ InitR /\ InitK /\ InitG /\ InitD /\ tk = NoTicker(DefaultTTL)
    /\ app = NoApp
    /\ serviceAddr = NoAddr /\ ~WholeRange

SpecV == InitRange /\ [][NextA]_vars

SpecM == Init /\ [][NextM]_vars

NextR ==
    \/ RegistryInit
    \/ \E serviceName \in {EmptyName, ServiceS}, k \in Keys :
          Register(serviceName, k)
    \/ \E k \in Keys : Unregister(k)
    \/ keepAlive
    \/ recreateLease
    \/ reregister
    \/ reregisterFails
    \/ recreateLeaseClosed
    \/ heartbeatStop
    \/ StopSnapshot
    \/ StopUnregister
    \/ StopClose
    \/ \E l \in 1 .. MaxLeases : LeaseExpire(l)
    \/ ResolverBuild
    \/ watchLoopWatch
    \/ watchLoopEvent

\* The allocator at rest over an unclaimed range.
InitRegistry ==
    /\ InitA /\ InitR /\ InitK /\ InitG /\ InitD /\ tk = NoTicker(DefaultTTL)
    /\ app = NoApp
    /\ initialClaims = {} /\ serviceAddr = NoAddr /\ WholeRange

\* The allocator and the registry at rest, the exposed address set or not.
InitKeys ==
    /\ InitA /\ InitR /\ InitK /\ InitG /\ InitD /\ tk = NoTicker(DefaultTTL)
    /\ app = NoApp
    /\ initialClaims = {} /\ WholeRange

\* The registry's calls with their keys.
SpecK == InitKeys /\ [][NextK]_vars

\* The generators of one process.
SpecG == InitRegistry /\ [][NextG]_vars

SpecW == InitRegistry /\ [][NextW]_vars

SpecB == InitRegistry /\ [][NextB]_vars

InitTTL ==
    /\ InitA /\ InitR /\ InitK /\ InitG /\ InitD
    /\ \E cfgTTL \in ConfiguredTTLs : tk = NoTicker(cfgTTL)
    /\ app = NoApp
    /\ initialClaims = {} /\ serviceAddr = NoAddr /\ WholeRange

SpecL == InitTTL /\ [][NextL]_vars

\* The application at its start, over a store with or without claims.
InitApp ==
    /\ InitA /\ InitR /\ InitK /\ InitG /\ InitD /\ tk = NoTicker(DefaultTTL)
    /\ app = NoApp
    /\ serviceAddr = NoAddr /\ WholeRange

SpecS == InitApp /\ [][NextS]_vars

\* The components that have not started.
AllocIdle == \A p \in Procs : pc[p] = "new"
RegIdle == ~inited
WatchIdle == wsv.pos = "none"
ResIdle == rsv.pos = "none"
DiscIdle == disc.recs = {} /\ disc.stopChan = "open"

\* The process whose allocator is followed through its shutdown.
TaskProcs == {1}

\* The allocator of one process, from its construction to the end of Stop.
AllocTask ==
    \/ \E p \in TaskProcs : Build(p)
    \/ \E p \in TaskProcs : InitCleanupGet(p)
    \/ \E p \in TaskProcs : InitClaimGet(p)
    \/ \E p \in TaskProcs : InitClaimTxn(p)
    \/ \E p \in TaskProcs : KeepAliveGet(p)
    \/ \E p \in TaskProcs : KeepAliveTxn(p)
    \/ \E p \in TaskProcs : KeepAliveCancelled(p)
    \/ \E p \in TaskProcs : StopGet(p)
    \/ \E p \in TaskProcs : StopDelete(p)
    \/ ~AllocIdle /\ Tick

\* What the heartbeat of the allocator does once its context is cancelled.
AllocTaskEnds ==
    \E p \in TaskProcs : KeepAliveTxn(p) \/ KeepAliveCancelled(p)

\* The registry with its keep-alive task, from Init to the end of Stop.
RegistryTask ==
    \/ RegistryInit
    \/ \E k \in Keys : Register(ServiceS, k)
    \/ keepAlive
    \/ recreateLease
    \/ reregister
    \/ reregisterFails
    \/ recreateLeaseClosed
    \/ heartbeatStop
    \/ StopSnapshot
    \/ StopUnregister
    \/ StopClose
    \/ \E l \in 1 .. MaxLeases : LeaseExpire(l)

\* The calls of a keep-alive that is under way return.
KeepAliveReturns ==
    recreateLease \/ reregister \/ reregisterFails \/ recreateLeaseClosed

\* The watch loop takes a response that is waiting in its channel.
watchLoopDrains == \E lookup \in Lookups : watchLoopRecv(lookup)

\* The background tasks, one component at a time: the components meet only
\* in the client connection, whose closing each of them has in its actions.
NextT ==
    \/ RegIdle /\ WatchIdle /\ ResIdle /\ DiscIdle /\ AllocTask
    \/ AllocIdle /\ WatchIdle /\ ResIdle /\ DiscIdle /\ RegistryTask
    \/ AllocIdle /\ RegIdle /\ ResIdle /\ NextW
    \/ AllocIdle /\ RegIdle /\ WatchIdle /\ NextB

\* Every call on the store returns within its timeout, a select with a
\* closed channel or a cancelled context among its cases takes it in the
\* end, and Stop, once called, runs to its end.
FairT ==
    /\ WF_vars(AllocTaskEnds)
    /\ WF_vars(KeepAliveReturns)
    /\ WF_vars(heartbeatStop)
    /\ WF_vars(StopUnregister)
    /\ WF_vars(StopClose)
    /\ WF_vars(WatchServiceExit)
    /\ WF_vars(watchLoopStart)
    /\ WF_vars(watchLoopDrains)
    /\ WF_vars(watchLoopExit)

SpecT == InitRegistry /\ [][NextT]_vars /\ FairT

\* The registry and a resolver of one service.
SpecR == InitRegistry /\ [][NextR]_vars

TypeOK ==
    /\ now \in Times
    /\ rev >= InitialRev
    /\ \A k \in Ids : store[k].owner \in Procs \cup {NoOwner, Departed}
    /\ \A p \in Procs : id[p] \in Ids
    /\ EtcdNodIDRange \in Ranges


(* ---------------------------------------------------------------------- *)
(* Properties of the allocator                                             *)
(* ---------------------------------------------------------------------- *)

\* The claim on key k was refreshed within the grace period.
Fresh(k) == Present(k) /\ store[k].hb >= now - staleDuration

\* A process that has completed Init and has not begun Stop.
Active(p) == pc[p] = "inited"

\* A process that has completed Init and whose Stop has not returned.
Holding(p) == pc[p] \in {"inited", "stopDelete"}

\* A step of p's Init.
InitStep(p) ==
    /\ pc[p] \in {"cleanupGet", "cleanupTxn", "claimGet", "claimTxn"}
    /\ <<pc[p], id[p]>> # <<pc'[p], id'[p]>>

\* C1: no two processes that have completed Init and have not stopped use
\* the same node id.
NodeIdExclusive ==
    \A p, q \in Procs :
        (p # q /\ Active(p) /\ Active(q)) => nodeID[p] # nodeID[q]

\* The processes whose Init has begun.
Started == {p \in Procs : pc[p] # "new"}

RangeExhaustion ==
    /\ [](\A p \in Procs :
            pc[p] = "no_available_node_id"
                => /\ claimKey[p] = NoID
                   /\ hb[p] = "none"
                   /\ \A k \in Ids : store[k].owner # p)
    /\ [][\A p \in Procs :
            (InitStep(p) /\ Fresh(id[p]))
                => /\ store' = store
                   /\ claimKey'[p] = NoID
                   /\ hb'[p] = "none"
                   /\ (pc[p] \in {"claimGet", "claimTxn"} /\ id[p] = RangeEnd)
                         => pc'[p] = "no_available_node_id"]_vars

\* Init failed while every id is held by a non-stale claim of someone else.
RangeExhaustionWitness ==
    \E p \in Procs :
        /\ pc[p] = "no_available_node_id"
        /\ \A k \in Ids : Fresh(k) /\ store[k].owner # p

\* C4: the generator the process uses carries the node id its allocator
\* claimed.
GeneratorCarriesAllocatedID ==
    \A p \in Procs : (pc[p] = "inited") => gen[p] = claimKey[p]

\* C5: Stop's delete removes only a claim this process owns.
ReleaseSafety ==
    [][\A p \in Procs :
        (pc[p] = "stopDelete" /\ pc'[p] = "stopped"
         /\ store'[claimKey[p]] # store[claimKey[p]])
            => store[claimKey[p]].owner = p]_vars

\* C6: a heartbeat write whose key has another ModRevision than the one the
\* heartbeat read (changed, deleted, or deleted and created again) leaves
\* the store as it is.
HeartbeatCAS ==
    [][\A p \in Procs :
        (hb[p] \in {"txn", "txnCancelled"} /\ hb'[p] # hb[p]
         /\ (store[claimKey[p]].mod # hbMod[p]
             \/ ~Present(claimKey[p])
             \/ store[claimKey[p]].owner # p))
            => store' = store]_vars

\* A heartbeat write was refused.
HeartbeatCASWitness ==
    /\ refused = "heartbeat"
    /\ \E p \in Procs : hb[p] \in {"wait", "off"} /\ store[claimKey[p]].owner # p

\* C7: a claim that the cleanup pass deletes is stale when it is deleted.
FreshClaimsSurvive ==
    [][\A p \in Procs :
        (pc[p] = "cleanupTxn" /\ InitStep(p) /\ store'[id[p]] # store[id[p]])
            => ~Fresh(id[p])]_vars

\* The owner's refresh landed between the cleanup's read and its delete: the
\* delete was refused and the claim is there, refreshed.
FreshClaimsSurviveWitness ==
    \E k \in Ids :
        /\ refused = "cleanup"
        /\ Fresh(k)
        /\ store[k].ver > 1

HeartbeatStep == ka # "none" /\ <<ka, kaResult, todo>> # <<ka', kaResult', todo'>>

\* C9: a keep-alive of a running registry that finds the lease gone goes on
\* to grant a new lease;
\* the grant makes the new lease the current one and takes the whole
\* registration table as its work; every write of the recovery attaches an
\* entry of that work to the current lease; the recovery returns without
\* error only with no work left, and then every entry it took that is still
\* registered is in the store under the current lease.
LeaseLossRecovery ==
    /\ [][(ka = "wait" /\ HeartbeatStep /\ leaseID \notin leases
           /\ stop = "running")
            => ka' = "grant"]_vars
    /\ [][(ka = "grant" /\ HeartbeatStep /\ ~Closed)
            => /\ leaseID' \notin leases
               /\ leaseID' \in leases'
               /\ regs' = registrations
               /\ todo' = registrations]_vars
    /\ [][(ka = "reput" /\ HeartbeatStep /\ kaResult' # "failed")
            => \E k \in todo :
                  /\ eps'[k] = leaseID
                  /\ todo' = todo \ {k}]_vars
    /\ [][(ka \in {"grant", "reput"} /\ ka' = "wait"
           /\ kaResult' = "recovered") => todo' = {}]_vars
    /\ []((ka = "wait" /\ kaResult = "recovered" /\ leaseID \in leases)
            => \A k \in regs \cap registrations : eps[k] = leaseID)

\* The first lease was lost with every endpoint registered, and the recovery
\* has put all of them back under the second lease.
LeaseLossRecoveryWitness ==
    /\ ka = "wait"
    /\ kaResult = "recovered"
    /\ leaseID = 2
    /\ leases = {2}
    /\ regs = Keys
    /\ registrations = Keys
    /\ \A k \in Keys : eps[k] = leaseID

\* C10: a resolver whose watch is established and has no response waiting
\* has every endpoint of the service that is in the store in the address set
\* it pushed.
DiscoveryConvergence ==
    (rs = "watching" /\ ~watchPending) => GetServices \subseteq addrs

\* C11: once Stop has returned, the registration table is empty and the
\* store holds no endpoint record of this registry.
StopCleansUp ==
    (stop = "stopped")
        => (registrations = {} /\ \A k \in Keys : eps[k] = NoLease)

(* ---------------------------------------------------------------------- *)
(* Properties of the registry's keys                                       *)
(* ---------------------------------------------------------------------- *)

\* The decodable records of a service.
RecordsOf(serviceName) ==
    {k \in KeysOf(serviceName) : DirAt(k) = "record"}

\* A call of GetServices returns.
GetServicesReturns == kcall' # kcall /\ kcall'.op = "GetServices"

\* The services whose keys lie under the search key of serviceName: the
\* service itself and those whose name goes on with a "/".
Under(serviceName) ==
    {t \in Services : t = serviceName \/ HasPrefix(t, serviceName \o <<"/">>)}

\* C12 as stated: GetServices(S) returns without error exactly the
\* decodable records of S, whatever undecodable records and records of
\* other services the store holds.
GetServicesExact ==
    [][GetServicesReturns
          => /\ kcall'.err = "nil"
             /\ kcall'.services = RecordsOf(kcall'.svc)]_vars

\* C12: GetServices(S) returns without error exactly the decodable records
\* under S's search key, which are those of S and of the services whose name
\* is S followed by "/" and more; undecodable records are skipped, and the
\* records of a service whose name continues S otherwise are not returned.
GetServicesUnderPrefix ==
    [][GetServicesReturns
          => /\ kcall'.err = "nil"
             /\ kcall'.services =
                    UNION {RecordsOf(t) : t \in Under(kcall'.svc)}]_vars

\* GetServices of a service returned its one decodable record, with an
\* undecodable record stored beside it.
GetServicesUnderPrefixWitness ==
    /\ kcall.op = "GetServices"
    /\ kcall.svc = ServiceS
    /\ kcall.services = RecordsOf(ServiceS)
    /\ Cardinality(kcall.services) = 1
    /\ \E k \in KeysOf(ServiceS) : DirAt(k) = "garbage"

\* C13: a Register that returns an error (empty service name, or a store
\* write that failed) leaves the store and the registration table as they
\* were; a key enters the table only in a step that wrote it to the store
\* attached to the current lease, which the store holds.
RegisterFailureUnchanged ==
    /\ [][(rcall' # rcall) => (eps' = eps /\ registrations' = registrations)]_vars
    /\ [][\A k \in registrations' \ registrations :
            /\ rcall' = rcall
            /\ leaseID \in leases
            /\ eps'[k] = leaseID]_vars

\* Register returned the error of a refused write while the lease was lost,
\* and neither the table nor the store has an entry.
RegisterFailureUnchangedWitness ==
    /\ rcall = "failed to register service"
    /\ inited
    /\ leaseID \notin leases
    /\ registrations = {}
    /\ \A k \in Keys : eps[k] = NoLease

\* A call of Unregister returns.
UnregisterReturns == kcall' # kcall /\ kcall'.op = "Unregister"

\* C14: with or without an exposed address, Unregister(service, info)
\* computes the key that Register(service, info) writes; it returns no error,
\* whether the key is stored or not, and after it that key is absent from
\* the store and from the table while every other key and table entry is as
\* it was.
UnregisterExactKey ==
    /\ [](\A svc \in Services, info \in Infos :
            getServiceNodeKey(svc, info) = putServiceKey(svc, info))
    /\ [][UnregisterReturns
            => LET key == putServiceKey(kcall'.svc, kcall'.info)
               IN  /\ kcall'.err = "nil"
                   /\ dir' = DirDelete(key)
                   /\ ktable' = ktable \ {key}]_vars

\* With an exposed address, Unregister has removed the key of one endpoint
\* and the record of another is in the store and in the table.
UnregisterExactKeyWitness ==
    /\ serviceAddr = ExposeAddr
    /\ kcall.op = "Unregister"
    /\ LET key == putServiceKey(kcall.svc, kcall.info)
       IN  /\ DirAt(key) = "absent"
           /\ key \notin ktable
           /\ \E k \in ktable : k # key /\ DirAt(k) = "record"

\* The slots of the generators.
Slots == 0 .. NodeMax

\* C15: the ids one generator returns, in the order of its NextID calls, are
\* strictly increasing, and two generators made with different node ids
\* never return the same id.
GeneratorOrderedUnique ==
    /\ [][\A n \in Slots :
            lastID'[n] # lastID[n] =>
                /\ lastID'[n] > lastID[n]
                /\ \A old \in issued[n] : lastID'[n] > old]_vars
    /\ [][\A n \in Slots :
            issued'[n] # issued[n] => lastID'[n] \notin issued[n]]_vars
    /\ [](\A n, m \in Slots :
            (gnode[n].made /\ gnode[m].made
               /\ gnode[n].nodeID # gnode[m].nodeID) =>
                issued[n] \cap issued[m] = {})

\* Two generators with different node ids have each returned ids in the same
\* milliseconds, one of them several in one millisecond.
GeneratorOrderedUniqueWitness ==
    /\ gnode[0].made /\ gnode[1].made
    /\ gnode[0].nodeID # gnode[1].nodeID
    /\ gnode[0].epoch = gnode[1].epoch
    /\ Cardinality(issued[0]) >= 3
    /\ Cardinality(issued[1]) >= 2
    /\ gnode[0].time = gnode[1].time
    /\ gnode[0].step = StepMask

\* The last construction was given an epoch that parses.
ValidEpochCall(c) == c.epoch # "none" /\ ParseEpoch(c.epoch) # ParseError

\* C16: the process-wide epoch is written once, by the first construction
\* whose epoch parses, and never afterwards; a construction whose epoch does
\* not parse returns the error and leaves the epoch and the one-time
\* installation as they were.
EpochInstalledOnce ==
    /\ [][onceDone => (Epoch' = Epoch /\ onceDone')]_vars
    /\ [][(~onceDone /\ gcall' # gcall /\ ValidEpochCall(gcall')) =>
              (onceDone' /\ Epoch' = ParseEpoch(gcall'.epoch))]_vars
    /\ [][Epoch' # Epoch => (~onceDone /\ ValidEpochCall(gcall'))]_vars
    /\ [][(gcall' # gcall /\ ~ValidEpochCall(gcall')) =>
              /\ gcall'.err = "invalid snowflake epoch"
              /\ UNCHANGED <<Epoch, onceDone, gnode>>]_vars

\* The first epoch is installed and a later construction with another epoch
\* has returned its generator.
EpochInstalledOnceWitness ==
    /\ onceDone
    /\ Epoch = ParseEpoch("epoch0")
    /\ gcall.epoch = "epoch1"
    /\ gcall.err = "nil"
    /\ \E n \in Slots : gnode[n].made /\ gnode[n].epoch = Epoch

\* The configured range starts below 0 or ends before it starts.
BadRange ==
    EtcdNodIDRange[1] < 0 \/ EtcdNodIDRange[2] < EtcdNodIDRange[1]

\* The configured range is [k, k].
SingleRange(k) == k >= 0 /\ EtcdNodIDRange = <<k, k>>

\* The store as it was when the first process started.
InitialStore ==
    [k \in Ids |-> IF k \in initialClaims THEN DepartedClaim(k) ELSE NoKey]

\* C17: with a range that starts below 0 or ends before it starts Init
\* returns the configuration error, no process reads or writes the store and
\* no heartbeat starts; with a range [k, k], k >= 0, Init runs, only key k is
\* ever read or written, and a process claims it only while nobody holds it.
RangeValidated ==
    /\ [](BadRange =>
            /\ \A p \in Procs :
                  /\ pc[p] \in {"new", "invalid_range"}
                  /\ hb[p] = "none"
                  /\ claimKey[p] = NoID
                  /\ nodeID[p] = ConfiguredNodeID
            /\ store = InitialStore
            /\ rev = InitialRev)
    /\ [][\A p \in Procs :
            (pc[p] = "new" /\ pc'[p] # "new") =>
                (pc'[p] = "invalid_range" <=> BadRange)]_vars
    /\ [](\A k \in Ids :
            SingleRange(k) =>
                /\ \A j \in Ids \ {k} : store[j] = InitialStore[j]
                /\ \A p \in Procs :
                      /\ claimKey[p] \in {NoID, k}
                      /\ pc[p] \in {"cleanupGet", "cleanupTxn", "claimGet",
                                    "claimTxn"} => id[p] = k)
    /\ [][\A k \in Ids, p \in Procs :
            (SingleRange(k) /\ claimKey'[p] # claimKey[p]) =>
                /\ ~Present(k)
                /\ claimKey'[p] = k
                /\ store'[k].owner = p]_vars

\* Every process was refused for the range while time went on and the
\* claims of the departed stayed in the store.
RangeValidatedWitness ==
    /\ BadRange
    /\ \A p \in Procs : pc[p] = "invalid_range"
    /\ initialClaims = Ids
    /\ now = MaxTime

\* A range of one id was claimed by one process and refused to another.
SingleRangeWitness ==
    /\ SingleRange(RangeEnd)
    /\ \E p, q \in Procs :
          /\ pc[p] = "inited" /\ claimKey[p] = RangeEnd
          /\ store[RangeEnd].owner = p
          /\ pc[q] = "no_available_node_id"

\* C18: when a keep-alive tick has found the lease alive, every entry of the
\* table is in the store under that lease: what a failed recovery left
\* unwritten was written by a later tick.
RecoveryCompletesLater ==
    (ka = "wait" /\ kaResult = "ok" /\ stop = "running"
        /\ leaseID \in leases) =>
        \A k \in registrations : eps[k] = leaseID

\* C19: when no keep-alive is in flight, every endpoint key the registry has
\* in the store has its entry in the table: a record that was unregistered
\* is not in the store.
UnregisterFinal ==
    (inited /\ ka = "wait" /\ stop = "running") =>
        \A k \in Keys : eps[k] # NoLease => k \in registrations

\* The heartbeat of p waits for a tick and the claim key is not p's.
Lost(p) ==
    /\ hb[p] \in {"wait", "lost"}
    /\ store[claimKey[p]].owner # p

\* C20: once the claim key of a process is missing or names another owner
\* and its heartbeat has no write in flight, its ticks write nothing: the
\* key never names the process again, no key is written in its name, and
\* the heartbeat only waits or ends.  A process that has claimed never
\* enters Init's loops again and keeps its node id and its claim key.
NoReclaim ==
    /\ [][\A p \in Procs :
            /\ Lost(p) =>
                  /\ hb'[p] \in {"wait", "lost", "off"}
                  /\ hbMod'[p] = hbMod[p]
                  /\ store' = store
                        \/ \A k \in Ids :
                              store'[k] # store[k] => store'[k].owner # p
            /\ pc[p] \in {"inited", "stopDelete", "stopped"} =>
                  /\ pc'[p] \in {"inited", "stopDelete", "stopped"}
                  /\ nodeID'[p] = nodeID[p]
                  /\ claimKey'[p] = claimKey[p]]_vars
    /\ [](\A p \in Procs : hb[p] = "lost" => store[claimKey[p]].owner # p)

\* A tick of p found its key in the name of q, who holds it with the same
\* node id, and time has gone on.
NoReclaimWitness ==
    \E p, q \in Procs :
        /\ hb[p] = "lost" /\ pc[p] = "inited"
        /\ store[claimKey[p]].owner = q
        /\ pc[q] = "inited" /\ claimKey[q] = claimKey[p]
        /\ nodeID[p] = nodeID[q]
        /\ hb[q] = "wait"

\* The keys that name p as their owner.
KeysOwnedBy(p) == {k \in Ids : store[k].owner = p}

\* C21: a key comes to name a process only by the one create of its Init,
\* on an absent key, after which Init has returned and no other key has
\* changed; when no other process has started, every smaller id of the range
\* has a key at that moment.  No process is ever the owner of two keys.
FirstFreeSingleClaim ==
    /\ [][(store' # store \/ claimKey' # claimKey) =>
          \A p \in Procs :
            /\ \A k \in Ids :
                  (store'[k].owner = p /\ store[k].owner # p) =>
                      /\ claimKey[p] = NoID /\ claimKey'[p] = k
                      /\ pc[p] = "claimTxn" /\ pc'[p] = "inited"
                      /\ ~Present(k)
                      /\ \A j \in Ids \ {k} : store'[j] = store[j]
            /\ claimKey'[p] # claimKey[p] =>
                  /\ claimKey[p] = NoID
                  /\ store'[claimKey'[p]].owner = p
                  /\ (\A q \in Procs \ {p} : pc[q] = "new") =>
                        \A j \in RangeStart .. claimKey'[p] - 1 : Present(j)
           ]_vars
    /\ [](\A p \in Procs : Cardinality(KeysOwnedBy(p)) <= 1)

\* A process that started alone over stale claims has deleted them and holds
\* the first id, the other ids being free.
FirstFreeSingleClaimWitness ==
    \E p \in Procs :
        /\ \A q \in Procs \ {p} : pc[q] = "new"
        /\ initialClaims = Ids
        /\ pc[p] = "inited"
        /\ claimKey[p] = RangeStart
        /\ KeysOwnedBy(p) = {RangeStart}
        /\ \A k \in Ids \ {RangeStart} : ~Present(k)

\* C22: a claim key that is in the store before and after a step names the
\* same owner; a key is created by the process it names.
OwnerImmutable ==
    [][store' # store =>
       \A k \in Ids :
        /\ (Present(k) /\ store'[k] # NoKey) =>
              store'[k].owner = store[k].owner
        /\ (~Present(k) /\ store'[k] # NoKey) =>
              /\ store'[k].owner \in Procs
              /\ store'[k].ver = 1
              /\ pc[store'[k].owner] = "claimTxn"]_vars

\* An id has changed hands: the key that p claimed was deleted and created
\* again by q, and has not been written since.
OwnerImmutableWitness ==
    \E p, q \in Procs :
        /\ p # q
        /\ claimKey[p] # NoID
        /\ claimKey[q] = claimKey[p]
        /\ store[claimKey[p]].owner = q
        /\ store[claimKey[p]].ver = 1
        /\ hb[p] = "lost"

(* ---------------------------------------------------------------------- *)
(* Properties of the watch tasks                                           *)
(* ---------------------------------------------------------------------- *)

\* The task of WatchService takes a response from its channel.
WatchServiceReceives == Len(wsv'.queue) < Len(wsv.queue)

watchLoopReceives == rsv'.queue < rsv.queue

\* C24: Build returns the resolver and no error, with its watch loop
\* started, whatever the initial lookup came to; a lookup that fails leaves
\* the routing state as it was, and a watch event whose lookup succeeds
\* gives the client the records of the store, so that after a failed initial
\* lookup the first such event populates the routing state.
BuildNeverFails ==
    /\ [][rsv'.pos # rsv.pos /\ rsv.pos = "none" =>
              (rsv'.pos = "built" /\ rsv'.err = "nil"
               /\ rsv'.set = (rsv'.first = "ok"))]_vars
    /\ [][watchLoopReceives =>
              IF rsv'.lookup = "ok"
              THEN rsv'.set /\ rsv'.addrs = disc.recs
              ELSE rsv'.set = rsv.set /\ rsv'.addrs = rsv.addrs]_vars
    /\ [][(rsv'.set # rsv.set \/ rsv'.addrs # rsv.addrs) =>
              (rsv'.lookup = "ok"
               /\ (watchLoopReceives \/ rsv.pos = "none"))]_vars
    /\ [](rsv.pos # "failedBuild")

\* The initial lookup failed, and a later watch event has given the client
\* the records of the store.
BuildNeverFailsWitness ==
    /\ rsv.first = "failed"
    /\ rsv.err = "nil"
    /\ rsv.pos = "watching"
    /\ rsv.set
    /\ rsv.addrs = disc.recs
    /\ rsv.addrs # {}

\* C25: after the registry's Stop has closed stopChan its keep-alive task
\* and the task of WatchService exit; after the resolver's Close, or after
\* the client is closed, the resolver's watch loop exits; after the
\* allocator's Stop its heartbeat has exited.  A task that has exited stays
\* so and neither writes to the store nor calls back.
TasksTerminate ==
    /\ (stop # "running") ~> (ka = "off")
    /\ (disc.stopChan = "closed") ~> (wsv.pos \in {"none", "exited"})
    /\ (rsv.pos # "none" /\ (rsv.ctx = "cancelled" \/ disc.client = "closed"))
          ~> (rsv.pos = "exited")
    /\ \A p \in TaskProcs :
          (pc[p] \in {"stopDelete", "stopped"}) ~> (hb[p] = "off")
    /\ [][/\ ka = "off" =>
                /\ ka' = "off"
                /\ leaseID' = leaseID
                /\ \A k \in Keys : eps'[k] \in {eps[k], NoLease}
          /\ wsv.pos = "exited" => wsv' = wsv
          /\ rsv.pos = "exited" => rsv' = rsv
          /\ \A p \in Procs :
                hb[p] = "off" =>
                    /\ hb'[p] = "off"
                    /\ \A k \in Ids :
                          store'[k] # store[k] => store'[k] = NoKey]_vars

\* The task of WatchService has called back and has exited after Stop, and
\* the client is closed.
TasksTerminateWitness ==
    /\ wsv.pos = "exited"
    /\ wsv.calls >= 1
    /\ disc.stopChan = "closed"
    /\ disc.client = "closed"

(* ---------------------------------------------------------------------- *)
(* Properties of the keep-alive period                                     *)
(* ---------------------------------------------------------------------- *)

\* C26: for every effective ttl >= 1 the keep-alive period ttl/3 is a
\* positive number of seconds below the ttl, the ticker of the heartbeat
\* starts, and it fires before the lease reaches the age of its ttl.
KeepAlivePeriodPositive ==
    /\ tk.pos \notin {"new", "created"} =>
          /\ tk.ttl >= 1
          /\ tk.period > 0
          /\ tk.period < tk.ttl
    /\ tk.pos # "panicked"
    /\ tk.pos # "expired"

(* ---------------------------------------------------------------------- *)
(* Properties of the shutdown                                              *)
(* ---------------------------------------------------------------------- *)

\* C28: StopAll stops the components in the reverse of InitAll's order, so
\* the allocator reads and deletes its claim while the registry's client is
\* open and its Stop has returned when the registry's begins; the Stop of
\* an allocator without a claim key and of a registry without Init change
\* no key and no lease.
ShutdownOrder ==
    /\ [](app.pos = "stop" =>
            \E i \in 1 .. Len(InitOrder) + 1 :
                app.todo = SubSeq(Reverse(InitOrder), i, Len(InitOrder)))
    /\ [][pc[AppProc] \in {"inited", "stopDelete"} /\ pc'[AppProc] # pc[AppProc]
            /\ app.pos = "stop"
            => stop = "running"]_vars
    /\ [](stop # "running" => pc[AppProc] \notin {"inited", "stopDelete"})
    /\ []((pc[AppProc] = "stopped" /\ claimKey[AppProc] \in Ids)
            => store[claimKey[AppProc]].owner # AppProc)
    /\ [][(app.pos = "stop" /\ claimKey[AppProc] \notin Ids) => store' = store]_vars
    /\ [][(app.pos = "stop" /\ ~inited) => eps' = eps /\ leases' = leases]_vars

\* StopAll ran to its end after InitAll succeeded: the allocator held a
\* claim, an endpoint was registered, and the client is closed.
ShutdownOrderWitness ==
    /\ app = [pos |-> "done", todo |-> <<>>, err |-> "nil"]
    /\ pc[AppProc] = "stopped"
    /\ claimKey[AppProc] \in Ids
    /\ store[claimKey[AppProc]] = NoKey
    /\ inited
    /\ stop = "stopped"
    /\ \E l \in leases : TRUE

(* ---------------------------------------------------------------------- *)
(* Properties of a repeated Register                                       *)
(* ---------------------------------------------------------------------- *)

\* C27: a Register puts the record under the endpoint's key, whatever the
\* key held, enters the key in the table and touches no other key; when the
\* table and the store hold the endpoint already, a second Register of the
\* same (serviceName, addr, port) leaves the store and the table as they
\* are: one key and one entry.
RegisterIdempotent ==
    [][kcall'.op \in {"Register", "Register again"} =>
          \A svc \in Services, info \in Infos :
              LET key == putServiceKey(svc, info)
              IN  ((kcall'.op = "Register again") = (key \in ktable)
                     /\ KRegister(svc, info)) =>
                      /\ key \in DOMAIN dir' /\ dir'[key] = "record"
                      /\ key \in ktable'
                      /\ DOMAIN dir' = DOMAIN dir \cup {key}
                      /\ \A j \in DOMAIN dir \ {key} : dir'[j] = dir[j]
                      /\ ktable' \ {key} = ktable \ {key}
                      /\ (key \in ktable /\ DirAt(key) = "record")
                            => dir' = dir /\ ktable' = ktable]_vars

\* An endpoint was registered again: the table holds its one entry and the
\* store its one record.
RegisterIdempotentWitness ==
    /\ kcall.op = "Register again"
    /\ Cardinality(ktable) = 1
    /\ Cardinality(Stored) = 1
    /\ \A k \in ktable : DirAt(k) = "record"

(* ---------------------------------------------------------------------- *)
(* Properties of undecodable claims                                        *)
(* ---------------------------------------------------------------------- *)

\* C29: a claim key whose value does not decode is left as it is by the
\* cleanup pass, the claim pass, the heartbeat and Stop: while the store
\* holds it, no step deletes, overwrites or refreshes it.
UndecodableInert ==
    [][\A k \in Ids : (Present(k) /\ ~Decodes(k)) => store'[k] = store[k]]_vars

(* ---------------------------------------------------------------------- *)
(* Properties of the generators of one creater                             *)
(* ---------------------------------------------------------------------- *)

\* C30: two generators made from the same configuration, with one node id
\* and one epoch, never return the same id.
SameNodeUnique ==
    \A n, m \in Slots :
        (n # m /\ gnode[n].made /\ gnode[m].made
           /\ gnode[n].nodeID = gnode[m].nodeID
           /\ gnode[n].epoch = gnode[m].epoch) =>
            issued[n] \cap issued[m] = {}

====
